---- MODULE Spec2Model ----
(***************************************************************************)
(* Model of the mini React compiler: lowering of a function declaration    *)
(* to the flat IR (Transform), the dependency analysis (Analysis), the     *)
(* block partitioner and code generator (CodeGen), the Babel visitor that  *)
(* drives them and maintains the "react" import (compiler/index.ts), and   *)
(* the server entry point compileReactCode (server/compiler-api.ts).       *)
(*                                                                         *)
(* JavaScript Maps and Sets iterate in insertion order, so they are        *)
(* modelled as duplicate-free sequences.  Instruction ids are 0-based as   *)
(* in the code: instruction id i is element i+1 of the sequence.           *)
(***************************************************************************)
EXTENDS Integers, Sequences, FiniteSets, TLC

\* ------------------------------------------------------------------ bounds
MaxStmts == 2
MaxFuncs == 2
MaxImports == 1
MaxScopes == 1
MaxSpan == 1
MaxRequests == 2
MaxIds == 4

\* ------------------------------------------------------- generic helpers
Range(s) == {s[i] : i \in 1..Len(s)}

SetAdd(s, x) == IF x \in Range(s) THEN s ELSE Append(s, x)

RECURSIVE SetAddAll(_, _)
SetAddAll(s, xs) ==
  IF xs = <<>> THEN s ELSE SetAddAll(SetAdd(s, Head(xs)), Tail(xs))

MinOf(S) == CHOOSE m \in S : \A k \in S : m <= k

MaxOf(S) == CHOOSE m \in S : \A k \in S : m >= k

startsWith(s, p) == Len(s) >= Len(p) /\ SubSeq(s, 1, Len(p)) = p

includes(s, p) ==
  \E i \in 1..(Len(s) - Len(p) + 1) : SubSeq(s, i, i + Len(p) - 1) = p

\* ------------------------------------------------------------ Babel AST
Null == [type |-> "Null"]

Id(n) == [type |-> "Identifier", name |-> n]

Num(v) == [type |-> "NumericLiteral", value |-> v]

Str(v) == [type |-> "StringLiteral", value |-> v]

Member(o, p, c) ==
  [type |-> "MemberExpression", object |-> o, property |-> p, computed |-> c]

CallE(f, args) == [type |-> "CallExpression", callee |-> f, arguments |-> args]

Arrow(ps, b) == [type |-> "ArrowFunctionExpression", params |-> ps, body |-> b]

Binary(op, l, r) ==
  [type |-> "BinaryExpression", operator |-> op, left |-> l, right |-> r]

ArrayE(els) == [type |-> "ArrayExpression", elements |-> els]

ObjProp(k, v) == [type |-> "ObjectProperty", key |-> k, value |-> v]

ObjE(props) == [type |-> "ObjectExpression", properties |-> props]

ArrayPat(els) == [type |-> "ArrayPattern", elements |-> els]

ObjPat(props) == [type |-> "ObjectPattern", properties |-> props]

Declarator(id, init) == [type |-> "VariableDeclarator", id |-> id, init |-> init]

VarDecl(k, decls) ==
  [type |-> "VariableDeclaration", kind |-> k, declarations |-> decls]

ReturnS(arg) == [type |-> "ReturnStatement", argument |-> arg]

ExprS(e) == [type |-> "ExpressionStatement", expression |-> e]

isLiteral(n) == n.type \in {"StringLiteral", "NumericLiteral", "BooleanLiteral"}

typeofLiteral(n) ==
  IF n.type = "StringLiteral" THEN "string"
  ELSE IF n.type = "NumericLiteral" THEN "number" ELSE "boolean"

\* String(value) of a literal node
StringOf(n) == IF n.type = "StringLiteral" THEN n.value ELSE ToString(n.value)

\* ---------------------------------------------- lines of console.log
\* A line handed to console.log is kept as what it is made of: the message
\* (without the pictograph that starts some of them) and the values formatted
\* into it.  Formatting and terminal colours are not modelled.
Line(message, values) == [line |-> message, of |-> values]

\* printInstr(instr, id)
printInstr(instr, id) == Line("printInstr", <<id, instr>>)

\* ------------------------------------------------ Transform: lowering
\* Lowering state: the FunctionBody built so far, the error thrown (if any),
\* the id last returned and, when the console is followed (`keep`), the lines
\* written to console.log so far.
NoError == ""

LowerState(instrs) ==
  [instrs |-> instrs, error |-> NoError, id |-> Len(instrs), log |-> <<>>,
   keep |-> FALSE]

Throw(state, msg) == [state EXCEPT !.error = msg]

\* console.log(line) during lowering
consoleLog(state, line) ==
  IF state.keep THEN [state EXCEPT !.log = Append(@, line)] ELSE state

logInstr(state, id) == consoleLog(state, printInstr(state.instrs[id + 1], id))

\* state.set(state.size, instr) without a log line, as readInstructions does
\* for the parameters
setInstr(state, instr) ==
  [state EXCEPT !.instrs = Append(@, instr), !.id = Len(state.instrs)]

\* slip: the id returned is state.size read after the set
Emit_sizeAfter(state, instr) ==
  [logInstr(setInstr(state, instr), Len(state.instrs)) EXCEPT !.id = Len(state.instrs) + 1]

\* state.set(state.size, instr); logInstr(state, currValue); return currValue
Emit(state, instr) == logInstr(setInstr(state, instr), Len(state.instrs))

Returning(state, id) == [state EXCEPT !.id = id]

\* slip: the assertion does not throw
assertsValid_noThrow(cond, msg, state) == state

assertsValid(cond, msg, state) ==
  IF cond THEN state ELSE Throw(state, "Invalid syntax. " \o msg)

Literal(n) == [kind |-> "Literal", typeof |-> typeofLiteral(n), value |-> n.value]

RValue(id) == [kind |-> "RValue", typeof |-> "id", value |-> id]

PropName(n) ==
  IF n.type = "Identifier" THEN [typeof |-> "string", value |-> n.name]
  ELSE IF n.type = "NumericLiteral" THEN [typeof |-> "number", value |-> n.value]
  ELSE [typeof |-> "string", value |-> n.value]

\* Map.set(key, value): an existing key keeps its position
MapSet(m, k, v) ==
  IF \E i \in 1..Len(m) : m[i].key = k
  THEN [i \in 1..Len(m) |-> IF m[i].key = k THEN [key |-> k, value |-> v] ELSE m[i]]
  ELSE Append(m, [key |-> k, value |-> v])

getDeclaration(func, variableName) ==
  LET hits == {i \in 1..Len(func) :
                 \/ func[i].kind = "Declare" /\ func[i].lhs = variableName
                 \/ func[i].kind = "Param" /\ func[i].name = variableName}
  IN IF hits = {} THEN -1 ELSE MinOf(hits) - 1

RECURSIVE joinNames(_, _)
joinNames(els, i) ==
  IF i > Len(els) THEN ""
  ELSE (IF els[i].type = "Identifier" THEN els[i].name ELSE "_" \o ToString(i - 1))
       \o (IF i < Len(els) THEN ", " ELSE "")
       \o joinNames(els, i + 1)

RECURSIVE lowerBabelInstr(_, _)
RECURSIVE lowerProperties(_, _, _)
RECURSIVE lowerArguments(_, _, _)
RECURSIVE lowerDeclarations(_, _, _)

\* the loop over instr.get("properties"); acc is propertyValues
lowerProperties(props, state, acc) ==
  IF state.error # NoError THEN [state |-> state, values |-> acc]
  ELSE IF props = <<>> THEN [state |-> state, values |-> acc]
  ELSE LET prop == Head(props) IN
    IF prop.type # "ObjectProperty" THEN lowerProperties(Tail(props), state, acc)
    ELSE LET checked == assertsValid(prop.key.type = "Identifier",
                                     "Only identifier keys supported", state) IN
      IF checked.error # NoError THEN [state |-> checked, values |-> acc]
      ELSE IF isLiteral(prop.value)
      THEN lowerProperties(Tail(props), state,
                           MapSet(acc, prop.key.name, Literal(prop.value)))
      ELSE LET v == lowerBabelInstr(prop.value, state) IN
        lowerProperties(Tail(props), v, MapSet(acc, prop.key.name, RValue(v.id)))

\* the loop over instr.get("arguments"); acc is argumentValues
lowerArguments(args, state, acc) ==
  IF state.error # NoError THEN [state |-> state, values |-> acc]
  ELSE IF args = <<>> THEN [state |-> state, values |-> acc]
  ELSE LET arg == Head(args) IN
    IF isLiteral(arg)
    THEN lowerArguments(Tail(args), state, Append(acc, Literal(arg)))
    ELSE LET v == lowerBabelInstr(arg, state) IN
      lowerArguments(Tail(args), v, Append(acc, RValue(v.id)))

\* the loop over instr.get("declarations"); lastValue is carried in state.id
lowerDeclarations(decls, state, lastValue) ==
  IF state.error # NoError THEN state
  ELSE IF decls = <<>> THEN Returning(state, lastValue)
  ELSE LET decl == Head(decls)
           checked == assertsValid(decl.init.type # "Null",
                                   "Variable must have initializer", state) IN
    IF checked.error # NoError THEN checked
    ELSE IF decl.id.type = "Identifier" THEN
      LET init == lowerBabelInstr(decl.init, state)
          done == Emit(init, [kind |-> "Declare", lhs |-> decl.id.name, rhs |-> init.id])
      IN IF init.error # NoError THEN init
         ELSE lowerDeclarations(Tail(decls), done, done.id)
    ELSE IF decl.id.type = "ArrayPattern" THEN
      LET init == lowerBabelInstr(decl.init, state)
          done == Emit(init, [kind |-> "Declare",
                              lhs |-> "[" \o joinNames(decl.id.elements, 1) \o "]",
                              rhs |-> init.id])
      IN IF init.error # NoError THEN init
         ELSE lowerDeclarations(Tail(decls), done, done.id)
    ELSE lowerDeclarations(Tail(decls),
           consoleLog(state, Line("Skipping unsupported declaration pattern", decl.id.type)),
           lastValue)

lowerBabelInstr(instr, state) ==
  IF state.error # NoError THEN state
  ELSE IF instr.type = "MemberExpression" THEN
    LET obj == lowerBabelInstr(instr.object, state) IN
    IF obj.error # NoError THEN obj
    ELSE IF instr.property.type \in {"Identifier", "NumericLiteral", "StringLiteral"}
    THEN Emit(obj, [kind |-> "ReadProperty", object |-> obj.id,
                    property |-> PropName(instr.property)])
    ELSE Throw(obj, "Unsupported property type: " \o instr.property.type)
  ELSE IF instr.type = "ObjectExpression" THEN
    LET r == lowerProperties(instr.properties, state, <<>>) IN
    IF r.state.error # NoError THEN r.state
    ELSE Emit(r.state, [kind |-> "Object", properties |-> r.values])
  ELSE IF instr.type = "CallExpression" THEN
    LET isMethod == instr.callee.type = "MemberExpression"
        recv == IF isMethod THEN lowerBabelInstr(instr.callee.object, state)
                ELSE lowerBabelInstr(instr.callee, state)
        checked == IF isMethod
                   THEN assertsValid(instr.callee.property.type = "Identifier",
                                     "Only identifier properties supported", recv)
                   ELSE recv
        propertyName == IF isMethod THEN instr.callee.property.name ELSE ""
        r == lowerArguments(instr.arguments, checked, <<>>)
    IN IF recv.error # NoError THEN recv
       ELSE IF checked.error # NoError THEN checked
       ELSE IF r.state.error # NoError THEN r.state
       ELSE Emit(r.state, [kind |-> "Call", receiver |-> recv.id,
                           property |-> propertyName, arguments |-> r.values])
  ELSE IF instr.type = "ReturnStatement" THEN
    IF instr.argument.type # "Null"
    THEN LET arg == lowerBabelInstr(instr.argument, state) IN
         IF arg.error # NoError THEN arg
         ELSE Emit(arg, [kind |-> "Return", value |-> arg.id])
    ELSE Emit(state, [kind |-> "Return", value |-> -1])
  ELSE IF instr.type = "VariableDeclaration" THEN
    lowerDeclarations(instr.declarations, state, Len(state.instrs))
  ELSE IF instr.type = "Identifier" THEN
    LET localDeclaration == getDeclaration(state.instrs, instr.name) IN
    IF localDeclaration # -1 THEN Returning(state, localDeclaration)
    ELSE Emit(state, [kind |-> "LoadConstant", variableName |-> instr.name])
  ELSE IF instr.type = "ExpressionStatement" THEN
    lowerBabelInstr(instr.expression, state)
  ELSE IF isLiteral(instr) THEN
    Emit(state, [kind |-> "LoadConstant", variableName |-> StringOf(instr)])
  ELSE IF instr.type \in {"ArrowFunctionExpression", "FunctionExpression"} THEN
    Emit(state, [kind |-> "LoadConstant", variableName |-> "function"])
  ELSE
    Emit(consoleLog(state, Line("Skipping unsupported instruction", instr.type)),
         [kind |-> "LoadConstant", variableName |-> "unsupported_" \o instr.type])

RECURSIVE lowerParamProperties(_, _)
lowerParamProperties(props, state) ==
  IF state.error # NoError \/ props = <<>> THEN state
  ELSE LET property == Head(props)
           c1 == assertsValid(property.type = "ObjectProperty",
                              "Cannot handle " \o property.type \o " in param", state)
           c2 == IF c1.error # NoError THEN c1
                 ELSE assertsValid(property.key.type = "Identifier",
                        "Cannot handle non-identifier key in destructured param", state)
    IN IF c2.error # NoError THEN c2
       ELSE lowerParamProperties(Tail(props),
              setInstr(state, [kind |-> "Param", name |-> property.key.name]))

RECURSIVE lowerParams(_, _)
lowerParams(params, state) ==
  IF state.error # NoError \/ params = <<>> THEN state
  ELSE LET param == Head(params) IN
    IF param.type = "ObjectPattern"
    THEN lowerParams(Tail(params), lowerParamProperties(param.properties, state))
    ELSE LET c == assertsValid(param.type = "Identifier",
                    "Cannot handle non-identifier param " \o param.type, state) IN
      IF c.error # NoError THEN c
      ELSE lowerParams(Tail(params),
                       setInstr(state, [kind |-> "Param", name |-> param.name]))

RECURSIVE lowerBody(_, _)
lowerBody(stmts, state) ==
  IF state.error # NoError \/ stmts = <<>> THEN state
  ELSE lowerBody(Tail(stmts), lowerBabelInstr(Head(stmts), state))

\* func is [params, body]; the result carries the FunctionBody or the error
readInstructions(func) ==
  lowerBody(func.body, lowerParams(func.params, LowerState(<<>>)))

\* print(func): logInstr for every id
print(func) == [i \in 1..Len(func) |-> printInstr(func[i], i - 1)]

\* print(func, infos): printFunc(func) in one line, then printValueInfo(id, info)
\* for every ValueInfo
printInfos(func, infos) ==
  <<Line("printFunc", func)>>
    \o [i \in 1..Len(infos) |-> Line("printValueInfo", <<i - 1, infos[i]>>)]

\* ------------------------------------------- LoweredJavaScript: eachValue
RECURSIVE rvalues(_)
rvalues(vals) ==
  IF vals = <<>> THEN <<>>
  ELSE (IF Head(vals).kind = "RValue" THEN <<Head(vals).value>> ELSE <<>>)
       \o rvalues(Tail(vals))

\* the ids an instruction uses, in the order the generator yields them
eachValue(instr) ==
  IF instr.kind = "Call" THEN <<instr.receiver>> \o rvalues(instr.arguments)
  ELSE IF instr.kind = "Object"
    THEN rvalues([i \in 1..Len(instr.properties) |-> instr.properties[i].value])
  ELSE IF instr.kind = "ReadProperty" THEN <<instr.object>>
  ELSE IF instr.kind = "Declare" THEN <<instr.rhs>>
  ELSE IF instr.kind = "Return"
    THEN (IF instr.value # -1 THEN <<instr.value>> ELSE <<>>)
  ELSE <<>>

\* func.get(id); ids are 0-based
hasInstr(func, id) == id >= 0 /\ id < Len(func)

get(func, id) == func[id + 1]

\* ---------------------------------------------------------------- Analysis
isHookCall(instr, func) ==
  /\ instr.kind = "Call"
  /\ hasInstr(func, instr.receiver)
  /\ get(func, instr.receiver).kind = "LoadConstant"
  /\ startsWith(get(func, instr.receiver).variableName, "use")

\* slip: "map" missing from the analyzer's list
expensiveMethods_noMap == {"filter", "reduce", "sort", "find", "findIndex"}

expensiveMethods == {"map", "filter", "reduce", "sort", "find", "findIndex"}

expensiveFunctions == {"Math.sqrt", "Math.pow", "Math.sin", "Math.cos"}

\* fn.split('.')[0]
splitHead(fn) ==
  LET dots == {i \in 1..Len(fn) : SubSeq(fn, i, i) = "."}
  IN IF dots = {} THEN fn ELSE SubSeq(fn, 1, MinOf(dots) - 1)

isExpensiveOperation(instr, func) ==
  IF instr.kind = "Call" THEN
    IF instr.property # "" THEN instr.property \in expensiveMethods
    ELSE IF hasInstr(func, instr.receiver)
            /\ get(func, instr.receiver).kind = "LoadConstant"
      THEN \E fn \in expensiveFunctions :
             includes(get(func, instr.receiver).variableName, splitHead(fn))
      ELSE FALSE
  ELSE instr.kind = "Object"

\* one forward sweep; acc is the set built so far, id the next instruction
RECURSIVE sweepMayChange(_, _, _)
sweepMayChange(func, id, acc) ==
  IF id >= Len(func) THEN acc
  ELSE LET instr == get(func, id) IN
    IF instr.kind = "Param" \/ isHookCall(instr, func)
    THEN sweepMayChange(func, id + 1, acc \cup {id})
    ELSE IF \E used \in Range(eachValue(instr)) : used \in acc
      THEN sweepMayChange(func, id + 1, acc \cup {id})
      ELSE sweepMayChange(func, id + 1, acc)

\* slip: every Call is taken for a hook call
getValuesThatMayChange_allCalls(func) ==
  sweepMayChange(func, 0, {i \in 0..(Len(func) - 1) : get(func, i).kind = "Call"})

\* slip: the seeds are returned without the propagation
getValuesThatMayChange_seedsOnly(func) ==
  {i \in 0..(Len(func) - 1) :
     get(func, i).kind = "Param" \/ isHookCall(get(func, i), func)}

getValuesThatMayChange(func) == sweepMayChange(func, 0, {})

RECURSIVE sweepWritable(_, _, _)
sweepWritable(func, id, acc) ==
  IF id >= Len(func) THEN acc
  ELSE LET instr == get(func, id) IN
    IF instr.kind \in {"Object", "Call"}
    THEN sweepWritable(func, id + 1, acc \cup {id})
    ELSE IF \E used \in Range(eachValue(instr)) : used \in acc
      THEN sweepWritable(func, id + 1, acc \cup {id})
      ELSE sweepWritable(func, id + 1, acc)

\* slip: the Object and Call instructions are returned without the propagation
getWritableValues_seedsOnly(func) ==
  {i \in 0..(Len(func) - 1) : get(func, i).kind \in {"Object", "Call"}}

getWritableValues(func) == sweepWritable(func, 0, {})

\* slip: every id used is taken for a dependency
collectDependencies_all(used, mayChange, acc) == SetAddAll(acc, used)

\* the dependencies Set of one instruction, in insertion order
RECURSIVE collectDependencies(_, _, _)
collectDependencies(used, mayChange, acc) ==
  IF used = <<>> THEN acc
  ELSE collectDependencies(Tail(used), mayChange,
         IF Head(used) \in mayChange THEN SetAdd(acc, Head(used)) ELSE acc)

\* analyze, step 1: shouldMemo and dependencies of every instruction
analyzeStep1(func) ==
  LET mayChange == getValuesThatMayChange(func) IN
  [i \in 1..Len(func) |->
     LET dependencies == collectDependencies(eachValue(func[i]), mayChange, <<>>) IN
     [shouldMemo |-> isExpensiveOperation(func[i], func) /\ Len(dependencies) > 0,
      dependencies |-> dependencies,
      instructions |-> <<>>]]

\* analyze, step 2, inner loop: call `id` is recorded on each writable value it uses
RECURSIVE recordMutations(_, _, _, _)
recordMutations(result, used, writableValues, id) ==
  IF used = <<>> THEN result
  ELSE LET u == Head(used) IN
    recordMutations(
      IF u \in writableValues
      THEN [result EXCEPT ![u + 1].instructions = SetAdd(@, id)]
      ELSE result,
      Tail(used), writableValues, id)

RECURSIVE analyzeStep2(_, _, _, _)
analyzeStep2(func, result, writableValues, id) ==
  IF id >= Len(func) THEN result
  ELSE analyzeStep2(func,
         IF get(func, id).kind = "Call"
         THEN recordMutations(result, eachValue(get(func, id)), writableValues, id)
         ELSE result,
         writableValues, id + 1)

\* ValueInfos: element id+1 is the ValueInfo of instruction id.  An absent
\* `instructions` set is the empty sequence (the code creates the set only
\* to add to it at once).
analyze(func) == analyzeStep2(func, analyzeStep1(func), getWritableValues(func), 0)

\* slip: the dependencies are tested alone
shouldMemoize_dependenciesOnly(info) == Len(info.dependencies) > 0

shouldMemoize(info) == info.shouldMemo /\ Len(info.dependencies) > 0

\* ------------------------------------------------- CodeGen: DisjointSet
\* parent and rank are Maps; keys is the insertion order of parent's keys
EmptyDisjointSet == [keys |-> <<>>, parent |-> <<>>, rank |-> <<>>]

RECURSIVE find(_, _)
find(ds, item) ==
  LET known == IF item \in Range(ds.keys) THEN ds
               ELSE [keys |-> Append(ds.keys, item),
                     parent |-> ds.parent @@ (item :> item),
                     rank |-> ds.rank @@ (item :> 0)]
      parent == known.parent[item]
  IN IF parent # item
     THEN LET r == find(known, parent)
              compressed == [r.ds EXCEPT !.parent[item] = r.root]
          IN [ds |-> compressed, root |-> compressed.parent[item]]
     ELSE [ds |-> known, root |-> item]

\* the union of two roots by rank, once both have been found
unionRoots(d, rootA, rootB) ==
  IF rootA = rootB THEN d
  ELSE IF d.rank[rootA] < d.rank[rootB] THEN [d EXCEPT !.parent[rootA] = rootB]
  ELSE IF d.rank[rootA] > d.rank[rootB] THEN [d EXCEPT !.parent[rootB] = rootA]
  ELSE [d EXCEPT !.parent[rootB] = rootA, !.rank[rootA] = d.rank[rootA] + 1]

\* fa is the outcome of find(a); find(b) runs on the set find(a) left
unionFound(fa, fb) == unionRoots(fb.ds, fa.root, fb.root)

\* slip: b is joined as it is, its root is not looked up
unionWith_noFind(fa, b) == unionRoots(find(fa.ds, b).ds, fa.root, b)

unionWith(fa, b) == unionFound(fa, find(fa.ds, b))

unionTwo(ds, a, b) == unionWith(find(ds, a), b)

RECURSIVE unionFrom(_, _, _)
unionFrom(ds, items, i) ==
  IF i > Len(items) THEN ds
  ELSE unionFrom(unionTwo(ds, items[1], items[i]), items, i + 1)

union(ds, items) == IF Len(items) < 2 THEN ds ELSE unionFrom(ds, items, 2)

\* groups is a Map root -> items, as a sequence of [root, items]
RECURSIVE groupItems(_, _, _)
groupItems(ds, i, groups) ==
  IF i > Len(ds.keys) THEN groups
  ELSE LET item == ds.keys[i]
           f == find(ds, item)
           at == {g \in 1..Len(groups) : groups[g].root = f.root}
       IN groupItems(f.ds, i + 1,
            IF at = {} THEN Append(groups, [root |-> f.root, items |-> <<item>>])
            ELSE [groups EXCEPT ![MinOf(at)].items = Append(@, item)])

buildSets(ds) ==
  LET groups == groupItems(ds, 1, <<>>)
  IN SelectSeq([g \in 1..Len(groups) |-> groups[g].items], LAMBDA grp : Len(grp) > 1)

\* ------------------------------------- CodeGen: getInstructionScopeRanges
RECURSIVE buildMutatingSets(_, _, _, _)
buildMutatingSets(func, valuesInfo, id, ds) ==
  IF id >= Len(func) THEN ds
  ELSE buildMutatingSets(func, valuesInfo, id + 1,
         IF shouldMemoize(valuesInfo[id + 1])
         THEN union(ds, Append(valuesInfo[id + 1].instructions, id))
         ELSE ds)

\* ranges.sort((a, b) => a.start - b.start): a stable sort
RECURSIVE insertRange(_, _)
insertRange(sorted, r) ==
  IF sorted = <<>> THEN <<r>>
  ELSE IF sorted[Len(sorted)].start <= r.start THEN Append(sorted, r)
  ELSE Append(insertRange(SubSeq(sorted, 1, Len(sorted) - 1), r), sorted[Len(sorted)])

RECURSIVE sortRanges(_, _)
sortRanges(ranges, sorted) ==
  IF ranges = <<>> THEN sorted
  ELSE sortRanges(Tail(ranges), insertRange(sorted, Head(ranges)))

\* slip: the sorted ranges are returned as they are
mergeRanges_unmerged(ranges, i, previous, mergedRanges) == ranges

RECURSIVE mergeRanges(_, _, _, _)
mergeRanges(ranges, i, previous, mergedRanges) ==
  IF i > Len(ranges) THEN Append(mergedRanges, previous)
  ELSE IF previous.end >= ranges[i].start
    THEN mergeRanges(ranges, i + 1,
           [start |-> previous.start,
            end |-> IF previous.end >= ranges[i].end THEN previous.end ELSE ranges[i].end],
           mergedRanges)
    ELSE mergeRanges(ranges, i + 1, ranges[i], Append(mergedRanges, previous))

\* the merge loop over the sorted ranges, starting from ranges[0]
mergeSorted(ranges) == mergeRanges(ranges, 2, ranges[1], <<>>)

\* one range per mutating set, sorted by start and merged
rangesOf(mutatingSets) ==
  IF Len(mutatingSets) = 0 THEN <<>>
  ELSE mergeSorted(sortRanges([k \in 1..Len(mutatingSets) |->
                                 [start |-> MinOf(Range(mutatingSets[k])),
                                  end |-> MaxOf(Range(mutatingSets[k]))]], <<>>))

getInstructionScopeRanges(func, valuesInfo) ==
  rangesOf(buildSets(buildMutatingSets(func, valuesInfo, 0, EmptyDisjointSet)))

\* ------------------------------------------- CodeGen: makeReactiveInstrs
\* hir.push({ ...instr, id: i }) for every i in from..to-1 that func holds
RECURSIVE pushInstrs(_, _, _, _)
pushInstrs(func, hir, from, to) ==
  IF from >= to THEN hir
  ELSE pushInstrs(func,
         IF hasInstr(func, from)
         THEN Append(hir, [kind |-> get(func, from).kind, id |-> from,
                           instr |-> get(func, from)])
         ELSE hir,
         from + 1, to)

\* the ReactiveBlock of one scope; instrs and decls hold the ids of the span
\* (the Map's values are func.get(id)), deps the union of their dependencies
RECURSIVE fillBlock(_, _, _, _, _)
fillBlock(func, valuesInfo, currBlock, i, end) ==
  IF i > end THEN currBlock
  ELSE fillBlock(func, valuesInfo,
         IF hasInstr(func, i)
         THEN [kind |-> "ReactiveBlock",
               instrs |-> Append(currBlock.instrs, i),
               decls |-> SetAdd(currBlock.decls, i),
               deps |-> SetAddAll(currBlock.deps, valuesInfo[i + 1].dependencies)]
         ELSE currBlock,
         i + 1, end)

EmptyBlock == [kind |-> "ReactiveBlock", instrs |-> <<>>, decls |-> <<>>, deps |-> <<>>]

\* slip: the single-Declare special case is missing
RECURSIVE reactiveInstrsFor_noDemotion(_, _, _, _, _)
reactiveInstrsFor_noDemotion(func, valuesInfo, scopes, startingInstrId, hir) ==
  IF scopes = <<>> THEN pushInstrs(func, hir, startingInstrId, Len(func))
  ELSE LET scope == Head(scopes)
           outside == pushInstrs(func, hir, startingInstrId, scope.start)
       IN reactiveInstrsFor_noDemotion(func, valuesInfo, Tail(scopes), scope.end + 1,
            Append(outside,
                   fillBlock(func, valuesInfo, EmptyBlock, scope.start, scope.end)))

\* the loop over scopes and the trailing loop of makeReactiveInstrs
RECURSIVE reactiveInstrsFor(_, _, _, _, _)
reactiveInstrsFor(func, valuesInfo, scopes, startingInstrId, hir) ==
  IF scopes = <<>> THEN pushInstrs(func, hir, startingInstrId, Len(func))
  ELSE LET scope == Head(scopes)
           outside == pushInstrs(func, hir, startingInstrId, scope.start)
           firstInstr == get(func, scope.start)
       IN IF scope.start = scope.end /\ firstInstr.kind = "Declare"
          THEN reactiveInstrsFor(func, valuesInfo, Tail(scopes), scope.end + 1,
                 Append(outside, [kind |-> "Declare", id |-> scope.start,
                                  instr |-> firstInstr]))
          ELSE reactiveInstrsFor(func, valuesInfo, Tail(scopes), scope.end + 1,
                 Append(outside,
                        fillBlock(func, valuesInfo, EmptyBlock, scope.start, scope.end)))

makeReactiveInstrs(func, valuesInfo) ==
  reactiveInstrsFor(func, valuesInfo, getInstructionScopeRanges(func, valuesInfo), 0, <<>>)

\* -------------------------------------------- CodeGen: instrToExpression
literalNode(v) ==
  IF v.typeof = "string" THEN Str(v.value)
  ELSE IF v.typeof = "number" THEN Num(v.value)
  ELSE [type |-> "BooleanLiteral", value |-> v.value]

RECURSIVE instrToExpression(_, _)
instrToExpression(instr, func) ==
  IF instr.kind = "Call" THEN
    LET receiver == get(func, instr.receiver)
        callee == IF instr.property # ""
                  THEN Member(instrToExpression(receiver, func), Id(instr.property), FALSE)
                  ELSE instrToExpression(receiver, func)
        args == [i \in 1..Len(instr.arguments) |->
                   IF instr.arguments[i].kind = "Literal"
                   THEN literalNode(instr.arguments[i])
                   ELSE instrToExpression(get(func, instr.arguments[i].value), func)]
    IN CallE(callee, args)
  ELSE IF instr.kind = "Object" THEN
    ObjE([i \in 1..Len(instr.properties) |->
            ObjProp(Id(instr.properties[i].key),
                    IF instr.properties[i].value.kind = "Literal"
                    THEN literalNode(instr.properties[i].value)
                    ELSE instrToExpression(get(func, instr.properties[i].value.value), func))])
  ELSE IF instr.kind = "LoadConstant" THEN Id(instr.variableName)
  ELSE IF instr.kind = "ReadProperty" THEN
    IF instr.property.typeof = "string"
    THEN Member(instrToExpression(get(func, instr.object), func),
                Id(instr.property.value), FALSE)
    ELSE Member(instrToExpression(get(func, instr.object), func),
                Num(instr.property.value), TRUE)
  ELSE Id("unknown")

RECURSIVE getDependencyNames(_, _)
getDependencyNames(deps, func) ==
  IF deps = <<>> THEN <<>>
  ELSE LET dep == Head(deps)
           name == IF ~hasInstr(func, dep) THEN <<>>
                   ELSE IF get(func, dep).kind = "Param" THEN <<get(func, dep).name>>
                   ELSE IF get(func, dep).kind = "Declare" THEN <<get(func, dep).lhs>>
                   ELSE <<>>
       IN name \o getDependencyNames(Tail(deps), func)

\* slip: the dependencies are left as the block collected them
pruneDeps_unpruned(reactiveInstrs) == reactiveInstrs

\* ------------------------------------------------------ CodeGen: codegenJS
\* prunedInstrs: dependencies produced inside the block are filtered out
pruneDeps(reactiveInstrs) ==
  [k \in 1..Len(reactiveInstrs) |->
     IF reactiveInstrs[k].kind = "ReactiveBlock"
     THEN [reactiveInstrs[k] EXCEPT
             !.deps = SelectSeq(@, LAMBDA dep : dep \notin Range(reactiveInstrs[k].instrs))]
     ELSE reactiveInstrs[k]]

\* slip: the last member of the block marked shouldMemo is taken
mainOperationId_last(block, info) ==
  LET marked == {k \in 1..Len(block.instrs) : info[block.instrs[k] + 1].shouldMemo}
  IN IF marked = {} THEN -1 ELSE block.instrs[MaxOf(marked)]

\* the first member of the block marked shouldMemo, or -1
mainOperationId(block, info) ==
  LET marked == {k \in 1..Len(block.instrs) : info[block.instrs[k] + 1].shouldMemo}
  IN IF marked = {} THEN -1 ELSE block.instrs[MinOf(marked)]

useMemoCall(computation, deps) ==
  CallE(Id("useMemo"), <<Arrow(<<>>, computation), ArrayE(deps)>>)

memoDeclaration(block, mainId, memoIndex, func) ==
  LET depNames == getDependencyNames(block.deps, func)
      deps == [i \in 1..Len(depNames) |-> Id(depNames[i])]
      computation == instrToExpression(get(func, mainId), func)
  IN VarDecl("const", <<Declarator(Id("memoized" \o ToString(memoIndex)),
                                   useMemoCall(computation, deps))>>)

RECURSIVE emitMemos(_, _, _, _, _, _)
emitMemos(prunedInstrs, k, memoIndex, statements, func, info) ==
  IF k > Len(prunedInstrs) THEN statements
  ELSE LET instr == prunedInstrs[k] IN
    IF instr.kind = "ReactiveBlock" /\ Len(instr.deps) > 0
       /\ mainOperationId(instr, info) # -1
    THEN emitMemos(prunedInstrs, k + 1, memoIndex + 1,
           Append(statements,
                  memoDeclaration(instr, mainOperationId(instr, info), memoIndex, func)),
           func, info)
    ELSE emitMemos(prunedInstrs, k + 1, memoIndex, statements, func, info)

codegenJS(func, info) ==
  emitMemos(pruneDeps(makeReactiveInstrs(func, info)), 1, 0, <<>>, func, info)

\* ------------------------------------------------ compiler/index.ts
RECURSIVE traverse(_)
RECURSIVE traverseAll(_)
traverseAll(nodes) ==
  IF nodes = <<>> THEN <<>> ELSE traverse(Head(nodes)) \o traverseAll(Tail(nodes))

\* the identifiers pushed by traverse(n), in order, duplicates included
traverse(n) ==
  IF n.type = "Identifier" THEN <<n.name>>
  ELSE IF n.type = "MemberExpression"
    THEN traverse(n.object) \o (IF n.computed THEN traverse(n.property) ELSE <<>>)
  ELSE IF n.type = "CallExpression"
    THEN traverse(n.callee) \o traverseAll(n.arguments)
  ELSE IF n.type \in {"ArrowFunctionExpression", "FunctionExpression"}
    THEN (IF n.body.type = "BlockStatement" THEN traverseAll(n.body.body)
          ELSE traverse(n.body))
  ELSE IF n.type = "ObjectExpression"
    THEN traverseAll([i \in 1..Len(n.properties) |->
           IF n.properties[i].type = "ObjectProperty" THEN n.properties[i].value
           ELSE IF n.properties[i].type = "SpreadElement" THEN n.properties[i].argument
           ELSE Null])
  ELSE IF n.type = "BinaryExpression" THEN traverse(n.left) \o traverse(n.right)
  ELSE IF n.type = "ReturnStatement" /\ n.argument.type # "Null"
    THEN traverse(n.argument)
  ELSE <<>>

\* [...new Set(identifiers)]
extractIdentifiers(node) == SetAddAll(<<>>, traverse(node))

\* slip: one more method name in the visitor's list
visitorExpensiveMethods_withSqrt ==
  {"map", "filter", "reduce", "sort", "find", "findIndex", "sqrt"}

visitorExpensiveMethods == {"map", "filter", "reduce", "sort", "find", "findIndex"}

excludeList == {"item", "Math", "console", "window", "document"}

\* slip: any call initializer is taken for an expensive method call
isExpensiveMethodCall_anyCall(decl) == decl.init.type = "CallExpression"

\* a declarator whose initializer is a direct call of an expensive method
isExpensiveMethodCall(decl) ==
  /\ decl.init.type = "CallExpression"
  /\ decl.init.callee.type = "MemberExpression"
  /\ decl.init.callee.property.type = "Identifier"
  /\ decl.init.callee.property.name \in visitorExpensiveMethods

hasExpensiveOperation(node) ==
  \E i \in 1..Len(node.declarations) :
    node.declarations[i].init.type # "Null" /\ isExpensiveMethodCall(node.declarations[i])

\* slip: the initializer is put back as it was
memoCall_unwrapped(originalCall) == originalCall

\* the useMemo wrapper that replaces decl.init
memoCall(originalCall) ==
  LET allIdentifiers == extractIdentifiers(originalCall)
      dependencies == SelectSeq(allIdentifiers, LAMBDA id : id \notin excludeList)
  IN useMemoCall(originalCall, [i \in 1..Len(dependencies) |-> Id(dependencies[i])])

\* step 4 on one top-level statement
rewriteStatement(stmt) ==
  IF stmt.type = "VariableDeclaration" /\ hasExpensiveOperation(stmt)
  THEN [stmt EXCEPT !.declarations =
          [i \in 1..Len(stmt.declarations) |->
             IF stmt.declarations[i].init.type # "Null"
                /\ isExpensiveMethodCall(stmt.declarations[i])
             THEN [stmt.declarations[i] EXCEPT !.init = memoCall(@)]
             ELSE stmt.declarations[i]]]
  ELSE stmt

rewriteStatements(statements) ==
  [i \in 1..Len(statements) |-> rewriteStatement(statements[i])]

\* step 5: the import list of the program
ImportSpecifier(name) == [type |-> "ImportSpecifier", imported |-> name]

ImportDefault(name) == [type |-> "ImportDefaultSpecifier", local |-> name]

ImportDecl(specs, src) ==
  [type |-> "ImportDeclaration", specifiers |-> specs, source |-> src]

hasImport(decl, name) ==
  \E i \in 1..Len(decl.specifiers) :
    decl.specifiers[i].type = "ImportSpecifier" /\ decl.specifiers[i].imported = name

\* slip: useMemo is pushed without looking whether it is already imported
addUseMemoImport_noCheck(programBody) ==
  LET found == {i \in 1..Len(programBody) : programBody[i].source = "react"} IN
  IF found # {} THEN
    LET at == MinOf(found)
        withMemo == [programBody[at] EXCEPT
                       !.specifiers = Append(@, ImportSpecifier("useMemo"))]
        withState == IF hasImport(withMemo, "useState") THEN withMemo
                     ELSE [withMemo EXCEPT
                             !.specifiers = Append(@, ImportSpecifier("useState"))]
    IN [programBody EXCEPT ![at] = withState]
  ELSE <<ImportDecl(<<ImportSpecifier("useMemo")>>, "react")>> \o programBody

\* slip: the new import is created with useState as well
addUseMemoImport_withState(programBody) ==
  LET found == {i \in 1..Len(programBody) : programBody[i].source = "react"} IN
  IF found # {} THEN
    LET at == MinOf(found)
        withMemo == IF hasImport(programBody[at], "useMemo") THEN programBody[at]
                    ELSE [programBody[at] EXCEPT
                            !.specifiers = Append(@, ImportSpecifier("useMemo"))]
        withState == IF hasImport(withMemo, "useState") THEN withMemo
                     ELSE [withMemo EXCEPT
                             !.specifiers = Append(@, ImportSpecifier("useState"))]
    IN [programBody EXCEPT ![at] = withState]
  ELSE <<ImportDecl(<<ImportSpecifier("useMemo"), ImportSpecifier("useState")>>,
                    "react")>> \o programBody

addUseMemoImport(programBody) ==
  LET found == {i \in 1..Len(programBody) : programBody[i].source = "react"} IN
  IF found # {} THEN
    LET at == MinOf(found)
        withMemo == IF hasImport(programBody[at], "useMemo") THEN programBody[at]
                    ELSE [programBody[at] EXCEPT
                            !.specifiers = Append(@, ImportSpecifier("useMemo"))]
        withState == IF hasImport(withMemo, "useState") THEN withMemo
                     ELSE [withMemo EXCEPT
                             !.specifiers = Append(@, ImportSpecifier("useState"))]
    IN [programBody EXCEPT ![at] = withState]
  ELSE <<ImportDecl(<<ImportSpecifier("useMemo")>>, "react")>> \o programBody

\* slip: the generated declarations are put after the original statements
prependGenerated_appended(generatedBody, originalBody) ==
  IF Len(generatedBody) > 0 THEN originalBody \o generatedBody ELSE originalBody

\* step 6
prependGenerated(generatedBody, originalBody) ==
  IF Len(generatedBody) > 0 THEN generatedBody \o originalBody ELSE originalBody

\* ---- the lines the visitor and codegenJS write to console.log
RECURSIVE concat(_)
concat(seqs) == IF seqs = <<>> THEN <<>> ELSE Head(seqs) \o concat(Tail(seqs))

\* codegenJS logs one line after each declaration it pushes; depNames are the
\* names of the identifiers of the dependency array it has just built
generatedLog(generated) ==
  [k \in 1..Len(generated) |->
     Line("Generated useMemo for expensive operation with dependencies",
          [i \in 1..Len(generated[k].declarations[1].init.arguments[2].elements) |->
             generated[k].declarations[1].init.arguments[2].elements[i].name])]

\* step 4 on one top-level statement
statementLog(stmt) ==
  LET declaratorLog(decl) ==
        IF decl.init.type # "Null" /\ isExpensiveMethodCall(decl)
        THEN <<Line("Detected dependencies",
                    SelectSeq(extractIdentifiers(decl.init),
                              LAMBDA id : id \notin excludeList)),
               Line("Wrapped with useMemo", decl.init.callee.property.name)>>
        ELSE <<>>
  IN IF stmt.type = "VariableDeclaration" /\ hasExpensiveOperation(stmt)
     THEN <<Line("Found expensive operation in variable declaration", <<>>)>>
            \o concat([i \in 1..Len(stmt.declarations) |->
                         declaratorLog(stmt.declarations[i])])
     ELSE <<>>

rewriteLog(statements) ==
  concat([i \in 1..Len(statements) |-> statementLog(statements[i])])

\* step 5
importLog(programBody) ==
  LET found == {i \in 1..Len(programBody) : programBody[i].source = "react"} IN
  IF found # {}
  THEN (IF hasImport(programBody[MinOf(found)], "useMemo") THEN <<>>
        ELSE <<Line("Added useMemo to existing React import", <<>>)>>)
       \o (IF hasImport(programBody[MinOf(found)], "useState") THEN <<>>
           ELSE <<Line("Added useState to existing React import", <<>>)>>)
  ELSE <<Line("Added new React import with useMemo", <<>>)>>

\* the FunctionDeclaration visitor on one function of a program
\* the flag the visitor raises in step 4 and again before step 6
hasAnyOptimizations(func, generated) ==
  \/ Len(generated) > 0
  \/ \E i \in 1..Len(func.body) :
       func.body[i].type = "VariableDeclaration" /\ hasExpensiveOperation(func.body[i])

\* the lines logged from the end of step 1 on
visitLog(func, programBody, lowered, valuesInfo, generated) ==
  <<Line("Lowered instructions:", <<>>)>> \o print(lowered)
    \o <<Line("Analysis complete:", <<>>)>> \o printInfos(lowered, valuesInfo)
    \o generatedLog(generated)
    \o rewriteLog(func.body)
    \o (IF hasAnyOptimizations(func, generated) THEN importLog(programBody) ELSE <<>>)
    \o (IF Len(generated) > 0
        THEN <<Line("Additional optimizations applied!", <<>>)>> ELSE <<>>)
    \o (IF hasAnyOptimizations(func, generated)
        THEN <<Line("Function optimized with React Compiler!", <<>>)>>
        ELSE <<Line("No optimizations needed", <<>>)>>)

\* the lines of one visit whose outcome is r, in the order they are written:
\* the function's name (names are not modelled), the instructions lowering
\* emits, and, unless lowering threw, what the steps after it log
visitorLog(func, programBody, r) ==
  <<Line("Processing function:", <<>>)>>
    \o lowerBody(func.body,
                 lowerParams(func.params, [LowerState(<<>>) EXCEPT !.keep = TRUE])).log
    \o (IF r.error # NoError THEN <<>>
        ELSE visitLog(func, programBody, r.instrs, r.info, r.generatedBody))

\* slip: a module that imports useMemo already is taken for compiled, and the
\* body of the function is left as it is
visitGenerated_onceImported(func, programBody, lowered, valuesInfo, scopes, hir, generated) ==
  [error |-> NoError, instrs |-> lowered, info |-> valuesInfo,
   scopes |-> scopes,
   hir |-> hir,
   generatedBody |-> generated,
   body |-> IF \E i \in 1..Len(programBody) :
                 programBody[i].source = "react" /\ hasImport(programBody[i], "useMemo")
            THEN func.body
            ELSE prependGenerated(generated, rewriteStatements(func.body)),
   imports |-> IF hasAnyOptimizations(func, generated)
               THEN addUseMemoImport(programBody)
               ELSE programBody,
   hasAnyOptimizations |-> hasAnyOptimizations(func, generated)]

\* steps 4 to 6, on the outcome of steps 1 to 3; scopes and hir are the merged
\* ranges and the partition codegenJS went through
visitGenerated(func, programBody, lowered, valuesInfo, scopes, hir, generated) ==
  [error |-> NoError, instrs |-> lowered, info |-> valuesInfo,
   scopes |-> scopes,
   hir |-> hir,
   generatedBody |-> generated,
   body |-> prependGenerated(generated, rewriteStatements(func.body)),
   imports |-> IF hasAnyOptimizations(func, generated)
               THEN addUseMemoImport(programBody)
               ELSE programBody,
   hasAnyOptimizations |-> hasAnyOptimizations(func, generated)]

\* step 3.  codegenJS(lowered, valuesInfo) is taken call by call below, so that
\* the ranges and the partition it goes through are kept: first the ranges,
\* then makeReactiveInstrs' loop on them, then the statements emitted for it.
visitPartitioned(func, programBody, lowered, valuesInfo, scopes, hir) ==
  visitGenerated(func, programBody, lowered, valuesInfo, scopes, hir,
                 emitMemos(pruneDeps(hir), 1, 0, <<>>, lowered, valuesInfo))

visitScoped(func, programBody, lowered, valuesInfo, scopes) ==
  visitPartitioned(func, programBody, lowered, valuesInfo, scopes,
                   reactiveInstrsFor(lowered, valuesInfo, scopes, 0, <<>>))

visitAnalyzed(func, programBody, lowered, valuesInfo) ==
  visitScoped(func, programBody, lowered, valuesInfo,
              getInstructionScopeRanges(lowered, valuesInfo))

\* step 2, unless step 1 threw
visitLowered(func, programBody, lowered) ==
  IF lowered.error # NoError
  THEN [error |-> lowered.error, instrs |-> <<>>, info |-> <<>>,
        scopes |-> <<>>, hir |-> <<>>,
        generatedBody |-> <<>>, body |-> func.body, imports |-> programBody,
        hasAnyOptimizations |-> FALSE]
  ELSE visitAnalyzed(func, programBody, lowered.instrs, analyze(lowered.instrs))

visitFunction(func, programBody) ==
  visitLowered(func, programBody, readInstructions(func))

\* ------------------------------------------------------------- inputs
\* const c = a.map(x => x * b);
DeclareMap ==
  VarDecl("const", <<Declarator(Id("c"),
    CallE(Member(Id("a"), Id("map"), FALSE),
          <<Arrow(<<Id("x")>>, Binary("*", Id("x"), Id("b")))>>))>>)

\* return c;
ReturnC == ReturnS(Id("c"))

\* const [count, setCount] = useState(0);
DeclareState ==
  VarDecl("const", <<Declarator(ArrayPat(<<Id("count"), Id("setCount")>>),
                                CallE(Id("useState"), <<Num(0)>>))>>)

\* const d = a.map(f).filter(g);
DeclareChain ==
  VarDecl("const", <<Declarator(Id("d"),
    CallE(Member(CallE(Member(Id("a"), Id("map"), FALSE), <<Id("f")>>),
                 Id("filter"), FALSE),
          <<Id("g")>>))>>)

\* send({ k: a });
CallWithObject == ExprS(CallE(Id("send"), <<ObjE(<<ObjProp(Id("k"), Id("a"))>>)>>))

\* const e = { k: 1 };
DeclareObject == VarDecl("const", <<Declarator(Id("e"), ObjE(<<ObjProp(Id("k"), Num(1))>>))>>)

\* let u;
DeclareNoInit == VarDecl("let", <<Declarator(Id("u"), Null)>>)

\* const n = count.map(f);
DeclareFromState ==
  VarDecl("const", <<Declarator(Id("n"),
    CallE(Member(Id("count"), Id("map"), FALSE), <<Id("f")>>))>>)

\* const q = Math.sqrt(a);
DeclareSqrt ==
  VarDecl("const", <<Declarator(Id("q"),
    CallE(Member(Id("Math"), Id("sqrt"), FALSE), <<Id("a")>>))>>)

\* const v = useStore.get();
DeclareStoreGet ==
  VarDecl("const", <<Declarator(Id("v"),
    CallE(Member(Id("useStore"), Id("get"), FALSE), <<>>))>>)

\* a + b;
BinaryStatement == ExprS(Binary("+", Id("a"), Id("b")))

\* const w = a[b + 1];
DeclareComputed ==
  VarDecl("const", <<Declarator(Id("w"),
    Member(Id("a"), Binary("+", Id("b"), Num(1)), TRUE))>>)

Statements ==
  {DeclareMap, ReturnC, DeclareState, DeclareChain, CallWithObject, DeclareObject,
   DeclareNoInit, DeclareFromState, DeclareSqrt, DeclareStoreGet, BinaryStatement,
   DeclareComputed}

ParamLists ==
  { <<>>,
    <<Id("a"), Id("b")>>,
    <<ObjPat(<<ObjProp(Id("a"), Id("a"))>>)>>,
    <<Id("c"), Id("a")>>,
    <<ObjPat(<<ObjProp(Str("a"), Id("a"))>>)>> }

\* the bodies of at most n statements out of stmts.  No statement occurs twice:
\* the parser rejects a second const or let declaration of a name before the
\* visitor runs.
RECURSIVE BodiesOf(_, _)
BodiesOf(stmts, n) ==
  IF n = 0 THEN {<<>>}
  ELSE LET shorter == BodiesOf(stmts, n - 1)
       IN shorter \cup
          {Append(p[1], p[2]) :
             p \in {q \in {x \in shorter : Len(x) = n - 1} \X stmts :
                      q[2] \notin Range(q[1])}}

Bodies(n) == BodiesOf(Statements, n)

\* the parser accepts the function: no const or let declaration of a name that
\* a parameter or a var declaration of the function binds as well
parses(func) ==
  LET params == UNION {IF func.params[i].type = "Identifier" THEN {func.params[i].name}
                       ELSE {func.params[i].properties[k].value.name :
                               k \in 1..Len(func.params[i].properties)} :
                       i \in 1..Len(func.params)}
      declared(kinds) ==
        UNION {IF func.body[i].type = "VariableDeclaration" /\ func.body[i].kind \in kinds
               THEN UNION {IF func.body[i].declarations[k].id.type = "Identifier"
                           THEN {func.body[i].declarations[k].id.name}
                           ELSE {func.body[i].declarations[k].id.elements[e].name :
                                   e \in 1..Len(func.body[i].declarations[k].id.elements)} :
                           k \in 1..Len(func.body[i].declarations)}
               ELSE {} :
               i \in 1..Len(func.body)}
  IN declared({"const", "let"}) \cap (params \cup declared({"var"})) = {}

\* the function declarations a module may contain
Functions == {func \in [params : ParamLists, body : Bodies(MaxStmts)] : parses(func)}

\* statements that bind a name again, call a hook through its namespace, call
\* a function whose name holds "Math", nest two expensive operations in one
\* call, and bind a hook's result to a name that is read afterwards:
\* var c = a.filter(g);  var c = 1;  const s = React.useState(0);
\* const m = fastMath(a);  send(a.map(f), g({ k: b }));
\* const h = useData();  const t = h.filter(g);
MoreStatements ==
  {VarDecl("var", <<Declarator(Id("c"),
     CallE(Member(Id("a"), Id("filter"), FALSE), <<Id("g")>>))>>),
   VarDecl("var", <<Declarator(Id("c"), Num(1))>>),
   VarDecl("const", <<Declarator(Id("s"),
     CallE(Member(Id("React"), Id("useState"), FALSE), <<Num(0)>>))>>),
   VarDecl("const", <<Declarator(Id("m"), CallE(Id("fastMath"), <<Id("a")>>))>>),
   ExprS(CallE(Id("send"),
     <<CallE(Member(Id("a"), Id("map"), FALSE), <<Id("f")>>),
       CallE(Id("g"), <<ObjE(<<ObjProp(Id("k"), Id("b"))>>)>>)>>)),
   VarDecl("const", <<Declarator(Id("h"), CallE(Id("useData"), <<>>))>>),
   VarDecl("const", <<Declarator(Id("t"),
     CallE(Member(Id("h"), Id("filter"), FALSE), <<Id("g")>>))>>)}

ImportDecls ==
  {ImportDecl(<<ImportDefault("React")>>, "react"),
   ImportDecl(<<ImportSpecifier("useMemo")>>, "react"),
   ImportDecl(<<ImportSpecifier("useState")>>, "react"),
   ImportDecl(<<ImportSpecifier("debounce")>>, "lodash")}

RECURSIVE ImportLists(_)
ImportLists(n) ==
  IF n = 0 THEN {<<>>}
  ELSE LET shorter == ImportLists(n - 1)
       IN shorter \cup {Append(l, d) : l \in {x \in shorter : Len(x) = n - 1},
                                       d \in ImportDecls}

\* ------------------------------------------------------- state machine
VARIABLES
  pc,             \* where compileReactCode is: traverse, visited, threw, returned
  request,        \* the import list of the submitted module
  imports,        \* the import list of program.node.body
  fn,             \* the function declaration being visited (Null between visits)
  instrs,         \* its FunctionBody
  info,           \* its ValueInfos
  scopes,         \* the merged ranges the partitioner works on
  hir,            \* the ReactiveInstruction list the partitioner built
  generatedBody,  \* what codegenJS returned for it
  body,           \* its body statements after the visitor
  optimized,      \* hasAnyOptimizations of the visit
  thrown,         \* message of the error thrown by the visit
  visited,        \* number of function declarations visited so far
  fired,          \* number of them for which a rewrite fired
  response,       \* the CompilationResponse, once returned
  log,            \* the lines the visit wrote to console.log, where they are followed
  previous,       \* the outcome of the visit before this one, when it is kept
  lowered,        \* number of top-level statements lowered so far (-1: no parameter yet)
  mayChange,      \* the set getValuesThatMayChange returned
  console,        \* the value of console.log: the requests whose wrapper it goes through
  calls,          \* the compileReactCode calls in progress, by request
  sets,           \* the DisjointSet mutatingSetBuilder
  done            \* the ids the loop over func that fills it has handled

vars == <<pc, request, imports, fn, instrs, info, scopes, hir, generatedBody, body, optimized,
          thrown, visited, fired, response, log, previous, lowered, mayChange, console, calls,
          sets, done>>

NoResponse == [success |-> FALSE]

Init ==
  /\ pc = "traverse"
  /\ request \in ImportLists(MaxImports)
  /\ imports = request
  /\ fn = Null
  /\ instrs = <<>>
  /\ info = <<>>
  /\ scopes = <<>>
  /\ hir = <<>>
  /\ generatedBody = <<>>
  /\ body = <<>>
  /\ optimized = FALSE
  /\ thrown = NoError
  /\ visited = 0
  /\ fired = 0
  /\ response = NoResponse
  /\ log = <<>>
  /\ previous = Null
  /\ lowered = -1
  /\ mayChange = {}
  /\ console = <<>>
  /\ calls = <<>>
  /\ sets = EmptyDisjointSet
  /\ done = {}

\* Babel calls the visitor on the next function declaration of the module
FunctionDeclaration ==
  /\ pc = "traverse"
  /\ visited < MaxFuncs
  /\ \E func \in Functions : \E r \in {visitFunction(func, imports)} :
       /\ fn' = func
       /\ instrs' = r.instrs
       /\ info' = r.info
       /\ scopes' = r.scopes
       /\ hir' = r.hir
       /\ generatedBody' = r.generatedBody
       /\ body' = r.body
       /\ imports' = r.imports
       /\ optimized' = r.hasAnyOptimizations
       /\ thrown' = r.error
       /\ pc' = IF r.error # NoError THEN "threw" ELSE "visited"
       /\ fired' = IF r.hasAnyOptimizations THEN fired + 1 ELSE fired
  /\ visited' = visited + 1
  /\ UNCHANGED <<request, response, log, previous, lowered, mayChange, console, calls, sets, done>>

\* the traversal leaves the function declaration
TraverseNext ==
  /\ pc = "visited"
  /\ pc' = "traverse"
  /\ fn' = Null
  /\ instrs' = <<>>
  /\ info' = <<>>
  /\ scopes' = <<>>
  /\ hir' = <<>>
  /\ generatedBody' = <<>>
  /\ body' = <<>>
  /\ optimized' = FALSE
  /\ UNCHANGED <<request, imports, thrown, visited, fired, response,
                 log, previous, lowered, mayChange, console, calls, sets, done>>

\* transformAsync resolved: result.code is the printed module
compileReactCodeReturn ==
  /\ pc = "traverse"
  /\ pc' = "returned"
  /\ response' = IF Len(imports) + visited > 0
                 THEN [success |-> TRUE,
                       compiledCode |-> [imports |-> imports, functions |-> visited]]
                 ELSE [success |-> FALSE, error |-> "No output generated"]
  /\ UNCHANGED <<request, imports, fn, instrs, info, scopes, hir, generatedBody, body,
                 optimized, thrown, visited, fired,
                 log, previous, lowered, mayChange, console, calls, sets, done>>

\* transformAsync rejected with the error thrown by the visitor
compileReactCodeCatch ==
  /\ pc = "threw"
  /\ pc' = "returned"
  /\ response' = [success |-> FALSE, error |-> thrown]
  /\ UNCHANGED <<request, imports, fn, instrs, info, scopes, hir, generatedBody, body,
                 optimized, thrown, visited, fired,
                 log, previous, lowered, mayChange, console, calls, sets, done>>

Next ==
  \/ FunctionDeclaration
  \/ TraverseNext
  \/ compileReactCodeReturn
  \/ compileReactCodeCatch

Spec == Init /\ [][Next]_vars

\* ------------------------------------ the partitioner on supplied spans
\* makeReactiveInstrs' loop taken on its own: the spans are an input, any
\* ascending list of disjoint ranges over the ids of a lowered function.
Spans(n) ==
  {r \in [start : 0..(n - 1), end : 0..(n - 1)] :
     r.start <= r.end /\ r.end - r.start <= MaxSpan}

RECURSIVE ScopeLists(_, _)
ScopeLists(n, k) ==
  IF k = 0 THEN {<<>>}
  ELSE LET shorter == ScopeLists(n, k - 1)
           longest == {x \in shorter : Len(x) = k - 1}
       IN shorter \cup
          {Append(p[1], p[2]) :
             p \in {q \in longest \X Spans(n) :
                      q[1] = <<>> \/ q[1][Len(q[1])].end < q[2].start}}

InitScopes ==
  /\ pc = "scopes"
  /\ request = <<>>
  /\ imports = <<>>
  /\ \E func \in Functions :
       /\ readInstructions(func).error = NoError
       /\ fn = func
       /\ instrs = readInstructions(func).instrs
  /\ info = analyze(instrs)
  /\ scopes \in ScopeLists(Len(instrs), MaxScopes)
  /\ hir = <<>>
  /\ generatedBody = <<>>
  /\ body = <<>>
  /\ optimized = FALSE
  /\ thrown = NoError
  /\ visited = 0
  /\ fired = 0
  /\ response = NoResponse
  /\ log = <<>>
  /\ previous = Null
  /\ lowered = -1
  /\ mayChange = {}
  /\ console = <<>>
  /\ calls = <<>>
  /\ sets = EmptyDisjointSet
  /\ done = {}

Partition ==
  /\ pc = "scopes"
  /\ pc' = "partitioned"
  /\ hir' = reactiveInstrsFor(instrs, info, scopes, 0, <<>>)
  /\ generatedBody' = emitMemos(pruneDeps(hir'), 1, 0, <<>>, instrs, info)
  /\ UNCHANGED <<request, imports, fn, instrs, info, scopes, body, optimized,
                 thrown, visited, fired, response,
                 log, previous, lowered, mayChange, console, calls, sets, done>>

NextScopes == Partition

SpecScopes == InitScopes /\ [][NextScopes]_vars

\* ------------------------------------- a function declaration, twice
\* One module in which the visitor meets a function declaration and then either
\* a second declaration with the same parameters and statements, or, in a new
\* compilation of the printed module, the declaration it has just rewritten.
\* The lines written to console.log are followed.
InitAgain ==
  /\ pc = "first"
  /\ request \in ImportLists(1)
  /\ imports = request
  /\ fn \in Functions
  /\ instrs = <<>>
  /\ info = <<>>
  /\ scopes = <<>>
  /\ hir = <<>>
  /\ generatedBody = <<>>
  /\ body = <<>>
  /\ optimized = FALSE
  /\ thrown = NoError
  /\ visited = 0
  /\ fired = 0
  /\ response = NoResponse
  /\ log = <<>>
  /\ previous = Null
  /\ lowered = -1
  /\ mayChange = {}
  /\ console = <<>>
  /\ calls = <<>>
  /\ sets = EmptyDisjointSet
  /\ done = {}

\* the visitor on func, with outcome r
Visit(func, r) ==
  /\ fn' = func
  /\ instrs' = r.instrs
  /\ info' = r.info
  /\ scopes' = r.scopes
  /\ hir' = r.hir
  /\ generatedBody' = r.generatedBody
  /\ body' = r.body
  /\ imports' = r.imports
  /\ optimized' = r.hasAnyOptimizations
  /\ thrown' = r.error
  /\ log' = visitorLog(func, imports, r)
  /\ visited' = visited + 1
  /\ fired' = IF r.hasAnyOptimizations THEN fired + 1 ELSE fired
  /\ UNCHANGED <<request, response, lowered, mayChange, console, calls, sets, done>>

VisitFirst ==
  /\ pc = "first"
  /\ \E r \in {visitFunction(fn, imports)} :
       /\ Visit(fn, r)
       /\ pc' = IF r.error # NoError THEN "threw" ELSE "visited"
  /\ UNCHANGED previous

\* what is kept of a visit for the comparison with the next one
Outcome ==
  [fn |-> fn, instrs |-> instrs, info |-> info, scopes |-> scopes, hir |-> hir,
   generatedBody |-> generatedBody, body |-> body, log |-> log]

\* the traversal reaches a second declaration equal to the first
VisitSame ==
  /\ pc = "visited"
  /\ visited = 1
  /\ \E r \in {visitFunction(fn, imports)} : Visit(fn, r)
  /\ pc' = "same"
  /\ previous' = Outcome

\* the printed module is compiled again: the visitor meets the declaration
\* with the body the first compilation gave it
VisitOutput ==
  /\ pc = "visited"
  /\ visited = 1
  /\ \E r \in {visitFunction([params |-> fn.params, body |-> body], imports)} :
       Visit([params |-> fn.params, body |-> body], r)
  /\ pc' = "output"
  /\ previous' = Outcome

NextAgain ==
  \/ VisitFirst
  \/ VisitSame
  \/ VisitOutput

SpecAgain == InitAgain /\ [][NextAgain]_vars

\* ------------------------------------------- the compiler's passes, in steps
\* readInstructions taken loop by loop: the parameters, then one top-level
\* statement at a time, on a wider choice of statements; then analyze on the
\* FunctionBody it returned, getInstructionScopeRanges on the outcome, and the
\* partitioner and generator on its ranges.  instrs is the Map as it stands
\* between two steps.
InitLowering ==
  /\ pc = "params"
  /\ fn \in {func \in [params : ParamLists,
                       body : BodiesOf(Statements \cup MoreStatements, MaxStmts)] :
               parses(func)}
  /\ request = <<>>
  /\ imports = <<>>
  /\ instrs = <<>>
  /\ info = <<>>
  /\ scopes = <<>>
  /\ hir = <<>>
  /\ generatedBody = <<>>
  /\ body = <<>>
  /\ optimized = FALSE
  /\ thrown = NoError
  /\ visited = 0
  /\ fired = 0
  /\ response = NoResponse
  /\ log = <<>>
  /\ previous = Null
  /\ lowered = -1
  /\ mayChange = {}
  /\ console = <<>>
  /\ calls = <<>>
  /\ sets = EmptyDisjointSet
  /\ done = {}

\* the loop over func.get("params")
LowerParams ==
  /\ pc = "params"
  /\ \E state \in {lowerParams(fn.params, [LowerState(<<>>) EXCEPT !.keep = TRUE])} :
       /\ instrs' = state.instrs
       /\ log' = state.log
       /\ thrown' = state.error
       /\ pc' = IF state.error # NoError THEN "threw" ELSE "body"
  /\ lowered' = 0
  /\ UNCHANGED <<request, imports, fn, info, scopes, hir, generatedBody, body, optimized,
                 visited, fired, response, previous, mayChange, console, calls, sets, done>>

\* one turn of the loop over the statements of the body
LowerStatement ==
  /\ pc = "body"
  /\ lowered < Len(fn.body)
  /\ \E state \in {lowerBabelInstr(fn.body[lowered + 1],
                                   [LowerState(instrs) EXCEPT !.keep = TRUE, !.log = log])} :
       /\ instrs' = state.instrs
       /\ log' = state.log
       /\ thrown' = state.error
       /\ pc' = IF state.error # NoError THEN "threw" ELSE "body"
  /\ lowered' = lowered + 1
  /\ UNCHANGED <<request, imports, fn, info, scopes, hir, generatedBody, body, optimized,
                 visited, fired, response, previous, mayChange, console, calls, sets, done>>

\* analyze(instrs) on the FunctionBody readInstructions returned
Analyze ==
  /\ pc = "body"
  /\ lowered = Len(fn.body)
  /\ pc' = "analyzed"
  /\ mayChange' = getValuesThatMayChange(instrs)
  /\ info' = analyze(instrs)
  /\ UNCHANGED <<request, imports, fn, instrs, scopes, hir, generatedBody, body, optimized,
                 thrown, visited, fired, response, log, previous, lowered, console, calls,
                 sets, done>>

\* getInstructionScopeRanges(instrs, info), as makeReactiveInstrs calls it
ScopeRanges ==
  /\ pc = "analyzed"
  /\ pc' = "scopes"
  /\ scopes' = getInstructionScopeRanges(instrs, info)
  /\ UNCHANGED <<request, imports, fn, instrs, info, hir, generatedBody, body, optimized,
                 thrown, visited, fired, response, log, previous, lowered, mayChange,
                 console, calls, sets, done>>

NextLowering ==
  \/ LowerParams
  \/ LowerStatement
  \/ Analyze
  \/ ScopeRanges
  \/ Partition

SpecLowering == InitLowering /\ [][NextLowering]_vars

\* ------------------------------- the loop that fills mutatingSetBuilder
\* The loop of getInstructionScopeRanges over the ids 0..MaxIds on its own, one
\* id at a time and in any order, the ValueInfo of each id being an input.  A
\* marked instruction is a Call or an Object; the instruction that consumes it
\* is the one expression it is written in, so at most one Call, of a larger id,
\* is recorded on it.  Id 0 is a parameter, which every marked instruction
\* depends on.  `instructions` of an instruction that is not marked is never
\* read by the loop and is left empty.
InitGroups ==
  /\ pc = "unions"
  /\ request = <<>>
  /\ imports = <<>>
  /\ fn = Null
  /\ instrs = <<>>
  /\ info = [i \in 1..(MaxIds + 1) |->
               [shouldMemo |-> FALSE, dependencies |-> <<>>, instructions |-> <<>>]]
  /\ scopes = <<>>
  /\ hir = <<>>
  /\ generatedBody = <<>>
  /\ body = <<>>
  /\ optimized = FALSE
  /\ thrown = NoError
  /\ visited = 0
  /\ fired = 0
  /\ response = NoResponse
  /\ log = <<>>
  /\ previous = Null
  /\ lowered = -1
  /\ mayChange = {}
  /\ console = <<>>
  /\ calls = <<>>
  /\ sets = EmptyDisjointSet
  /\ done = {}

\* one turn of the loop: union([...instrs, id]) when the ValueInfo is marked
UnionNext(id) ==
  /\ pc = "unions"
  /\ id \notin done
  /\ \E i \in {[shouldMemo |-> FALSE, dependencies |-> <<>>, instructions |-> <<>>]}
              \cup {[shouldMemo |-> TRUE, dependencies |-> <<0>>, instructions |-> m] :
                      m \in IF id = 0 THEN {}
                            ELSE {<<>>} \cup {<<c>> : c \in (id + 1)..MaxIds}} :
       /\ info' = [info EXCEPT ![id + 1] = i]
       /\ sets' = IF shouldMemoize(i) THEN union(sets, Append(i.instructions, id)) ELSE sets
  /\ done' = done \cup {id}
  /\ UNCHANGED <<pc, request, imports, fn, instrs, scopes, hir, generatedBody, body,
                 optimized, thrown, visited, fired, response, log, previous, lowered,
                 mayChange, console, calls>>

\* after the loop: buildSets, one range per set, sorted and merged
MergeSets ==
  /\ pc = "unions"
  /\ done = 0..MaxIds
  /\ pc' = "ranges"
  /\ scopes' = rangesOf(buildSets(sets))
  /\ UNCHANGED <<request, imports, fn, instrs, info, hir, generatedBody, body, optimized,
                 thrown, visited, fired, response, log, previous, lowered, mayChange,
                 console, calls, sets, done>>

NextGroups ==
  \/ \E id \in 0..MaxIds : UnionNext(id)
  \/ MergeSets

SpecGroups == InitGroups /\ [][NextGroups]_vars

\* ------------------------------------ overlapping compileReactCode calls
\* The middleware awaits compileReactCode once per POST, so a call can start
\* while another is suspended at `await Babel.transformAsync`.  console is the
\* global console.log as the chain of wrappers a call to it goes through, the
\* newest first: <<>> is the function the process started with.  A logged line
\* carries the request whose compilation wrote it.
RequestModules ==
  { <<>>,
    <<[params |-> <<Id("a"), Id("b")>>, body |-> <<DeclareMap, ReturnC>>]>>,
    <<[params |-> <<>>, body |-> <<DeclareObject>>]>>,
    <<[params |-> <<Id("a"), Id("b")>>, body |-> <<DeclareNoInit>>]>> }

\* Babel.transformAsync on a module of at most one function declaration: the
\* lines its visitor logs, the error it throws and whether code is printed
transformAsync(module) ==
  IF module = <<>> THEN [log |-> <<>>, error |-> NoError, code |-> FALSE]
  ELSE [log |-> visitorLog(module[1], <<>>, visitFunction(module[1], <<>>)),
        error |-> visitFunction(module[1], <<>>).error,
        code |-> TRUE]

\* console.log(...lines) by request i: every wrapper of the chain pushes the
\* lines to the logs array of its own call, then calls the function it replaced
written(cs, chain, i, lines) ==
  [j \in DOMAIN cs |->
     IF j \in Range(chain)
     THEN [cs[j] EXCEPT !.logs = @ \o [k \in 1..Len(lines) |-> [from |-> i, line |-> lines[k]]]]
     ELSE cs[j]]

\* logs.push(line) by request i on its own array
pushed(call, i, message, values) ==
  [call EXCEPT !.logs = Append(@, [from |-> i, line |-> Line(message, values)])]

InitRequests ==
  /\ pc = "requests"
  /\ request = <<>>
  /\ imports = <<>>
  /\ fn = Null
  /\ instrs = <<>>
  /\ info = <<>>
  /\ scopes = <<>>
  /\ hir = <<>>
  /\ generatedBody = <<>>
  /\ body = <<>>
  /\ optimized = FALSE
  /\ thrown = NoError
  /\ visited = 0
  /\ fired = 0
  /\ response = NoResponse
  /\ log = <<>>
  /\ previous = Null
  /\ lowered = -1
  /\ mayChange = {}
  /\ console = <<>>
  /\ calls \in [1..MaxRequests ->
                 {[pc |-> "idle", module |-> m, originalLog |-> <<>>, logs |-> <<>>,
                   response |-> NoResponse] : m \in RequestModules}]
  /\ sets = EmptyDisjointSet
  /\ done = {}

\* lines 18 to 30: the call patches console.log, pushes its first line and is
\* suspended at the await
compileReactCodeStart(i) ==
  /\ calls[i].pc = "idle"
  /\ calls' = [calls EXCEPT
                 ![i] = pushed([@ EXCEPT !.pc = "awaiting", !.originalLog = console],
                               i, "Starting server-side compilation...", <<>>)]
  /\ console' = <<i>> \o console
  /\ UNCHANGED <<pc, request, imports, fn, instrs, info, scopes, hir, generatedBody, body,
                 optimized, thrown, visited, fired, response, log, previous, lowered,
                 mayChange,
                 sets, done>>

\* the rest of the call, the visitor's run included: what is logged goes
\* through the wrappers installed at that moment, then the last line is pushed,
\* the response is built and `finally` puts the saved function back
resumed(cs, i, t) ==
  [cs EXCEPT
     ![i] = LET last == IF t.error # NoError THEN pushed(@, i, "Error", t.error)
                        ELSE IF t.code THEN pushed(@, i, "Compilation successful!", <<>>)
                        ELSE pushed(@, i, "No output generated", <<>>)
            IN [last EXCEPT
                  !.pc = "returned",
                  !.response = IF t.error # NoError
                               THEN [success |-> FALSE, logs |-> last.logs, error |-> t.error]
                               ELSE IF t.code
                               THEN [success |-> TRUE, logs |-> last.logs]
                               ELSE [success |-> FALSE, logs |-> last.logs,
                                     error |-> "No output generated"]]]

compileReactCodeResume(i) ==
  /\ calls[i].pc = "awaiting"
  /\ \E t \in {transformAsync(calls[i].module)} :
       calls' = resumed(written(calls, console, i, t.log), i, t)
  /\ console' = calls[i].originalLog
  /\ UNCHANGED <<pc, request, imports, fn, instrs, info, scopes, hir, generatedBody, body,
                 optimized, thrown, visited, fired, response, log, previous, lowered,
                 mayChange,
                 sets, done>>

NextRequests ==
  \E i \in 1..MaxRequests : compileReactCodeStart(i) \/ compileReactCodeResume(i)

SpecRequests == InitRequests /\ [][NextRequests]_vars

\* ================================================================ claims
\* function F(a, b) { const c = a.map(x => x * b); return c; }
ScenarioA == [params |-> <<Id("a"), Id("b")>>, body |-> <<DeclareMap, ReturnC>>]

ScenarioACall == DeclareMap.declarations[1].init

NoParamNoHook(func) ==
  \A i \in 1..Len(func) : func[i].kind # "Param" /\ ~isHookCall(func[i], func)

\* a top-level declaration whose initializer is a direct call of one of the
\* six method names, spelled out here independently of the visitor
DirectExpensiveCall(stmt) ==
  /\ stmt.type = "VariableDeclaration"
  /\ \E i \in 1..Len(stmt.declarations) :
       LET init == stmt.declarations[i].init IN
       /\ init.type = "CallExpression"
       /\ init.callee.type = "MemberExpression"
       /\ init.callee.property.type = "Identifier"
       /\ init.callee.property.name \in
            {"map", "filter", "reduce", "sort", "find", "findIndex"}

NoDirectExpensiveCall(stmts) == \A i \in 1..Len(stmts) : ~DirectExpensiveCall(stmts[i])

\* C1 (as claimed): after the visitor processed scenario A, the declaration
\* of c has its initializer replaced in place by useMemo(() => a.map(x => x * b),
\* [a, b]) with exactly the dependencies a and b, and no statement is added.
C1_ScenarioARewrite ==
  (pc = "visited" /\ fn = ScenarioA) =>
    body = << VarDecl("const",
                <<Declarator(Id("c"),
                    useMemoCall(ScenarioACall, <<Id("a"), Id("b")>>))>>),
              ReturnC >>

\* C2: a function with no Param and no hook call has empty dependencies and
\* shouldMemo = false on every instruction, no ReactiveBlock with non-empty
\* deps, and codegenJS returns no statement.
C2_NoInputsNoMemo ==
  (pc = "visited" /\ NoParamNoHook(instrs)) =>
    /\ \A i \in 1..Len(info) : info[i].dependencies = <<>> /\ ~info[i].shouldMemo
    /\ \A k \in 1..Len(hir) : hir[k].kind = "ReactiveBlock" => hir[k].deps = <<>>
    /\ generatedBody = <<>>

C2_Witness ==
  /\ pc = "visited"
  /\ NoParamNoHook(instrs)
  /\ \E i \in 1..Len(instrs) : isExpensiveOperation(instrs[i], instrs)
  /\ \E i \in 1..Len(instrs) : instrs[i].kind = "Call" /\ eachValue(instrs[i]) # <<>>

\* C3 (as claimed): the visitor leaves a function with no Param and no hook
\* call unchanged: body and import list are what they were before the visit.
C3_NoInputsUnchanged ==
  [][(pc' = "visited" /\ NoParamNoHook(instrs')) =>
       (body' = fn'.body /\ imports' = imports)]_vars

\* C3 (amended): a function with no Param and no hook call is left unchanged
\* (body and import list) exactly when none of its top-level declarations has
\* a direct call of an expensive method as initializer; when one has, the
\* statement-level pass rewrites the body.
C3_NoInputsUnchangedUnlessDirectCall ==
  [][(pc' = "visited" /\ NoParamNoHook(instrs')) =>
       /\ NoDirectExpensiveCall(fn'.body) => (body' = fn'.body /\ imports' = imports)
       /\ ~NoDirectExpensiveCall(fn'.body) =>
            (body' # fn'.body /\ Len(body') = Len(fn'.body))]_vars

C3_Witness ==
  /\ pc = "visited"
  /\ NoParamNoHook(instrs)
  /\ NoDirectExpensiveCall(fn.body)
  /\ \E i \in 1..Len(instrs) : isExpensiveOperation(instrs[i], instrs)
  /\ body = fn.body
  /\ imports = request

\* the blocks for which codegenJS emitted a declaration, in the order of hir
MemoBlocks ==
  SelectSeq(pruneDeps(hir),
            LAMBDA b : b.kind = "ReactiveBlock" /\ Len(b.deps) > 0
                       /\ \E k \in 1..Len(b.instrs) : info[b.instrs[k] + 1].shouldMemo)

\* C4: in the rewritten body every generated memo declaration precedes every
\* original statement, and the generated declarations are in ascending order
\* of the start id of the block each was generated from.
C4_GeneratedFirstAscending ==
  pc = "visited" =>
    LET g == Len(generatedBody) IN
    /\ g = Len(MemoBlocks)
    /\ Len(body) = g + Len(fn.body)
    /\ \A i \in 1..g :
         /\ body[i] = generatedBody[i]
         /\ body[i].declarations[1].id = Id("memoized" \o ToString(i - 1))
         /\ body[i].declarations[1].init.arguments[1].body =
              instrToExpression(
                get(instrs, mainOperationId(MemoBlocks[i], info)), instrs)
    /\ \A j \in 1..Len(fn.body) :
         /\ body[g + j].type = fn.body[j].type
         /\ body[g + j].type = "VariableDeclaration" =>
              body[g + j].declarations[1].id = fn.body[j].declarations[1].id
    /\ \A i \in 1..g : \A j \in 1..g :
         i < j => MemoBlocks[i].instrs[1] < MemoBlocks[j].instrs[1]

C4_Witness ==
  /\ pc = "visited"
  /\ Len(generatedBody) >= 2
  /\ Len(fn.body) >= 2
  /\ MemoBlocks[1].instrs[1] < MemoBlocks[2].instrs[1]

\* C5 (as claimed): in scenario A the .map Call depends on both parameters.
C5_ScenarioAIR ==
  (pc = "visited" /\ fn = ScenarioA) =>
    /\ instrs[4].kind = "Call" /\ instrs[4].property = "map"
    /\ Range(info[4].dependencies) = {0, 1}
    /\ info[4].shouldMemo
    /\ info[4].instructions = <<>>
    /\ scopes = <<>>
    /\ \A k \in 1..Len(hir) : hir[k].kind # "ReactiveBlock"
    /\ generatedBody = <<>>

\* C5 (amended): in scenario A the .map Call has dependencies equal to the id
\* of parameter a only (b occurs only inside the arrow function, which is
\* lowered to an opaque LoadConstant), shouldMemo = true, an empty mutator
\* set; no range and no block forms and codegenJS returns no declaration.
C5_ScenarioAIROnlyReceiver ==
  (pc = "visited" /\ fn = ScenarioA) =>
    /\ instrs[1] = [kind |-> "Param", name |-> "a"]
    /\ instrs[2] = [kind |-> "Param", name |-> "b"]
    /\ instrs[3] = [kind |-> "LoadConstant", variableName |-> "function"]
    /\ instrs[4].kind = "Call" /\ instrs[4].property = "map"
    /\ instrs[4].receiver = 0
    /\ info[4].dependencies = <<0>>
    /\ info[4].shouldMemo
    /\ info[4].instructions = <<>>
    /\ scopes = <<>>
    /\ \A k \in 1..Len(hir) : hir[k].kind # "ReactiveBlock"
    /\ generatedBody = <<>>

C5_Witness == pc = "visited" /\ fn = ScenarioA /\ Len(instrs) = 6

HasReactImport(programBody) ==
  \E i \in 1..Len(programBody) : programBody[i].source = "react"

FirstReactImport(programBody) ==
  programBody[MinOf({i \in 1..Len(programBody) : programBody[i].source = "react"})]

CountImported(decl, name) ==
  Cardinality({i \in 1..Len(decl.specifiers) :
                 decl.specifiers[i].type = "ImportSpecifier"
                 /\ decl.specifiers[i].imported = name})

\* C6: once a rewrite has fired for some function of the module, the module
\* has an import from "react" holding the useMemo specifier; that import holds
\* useMemo and useState at most once each; and when the module was submitted
\* with an import from "react", that import holds useState as well.
C6_UseMemoImported ==
  fired > 0 =>
    /\ HasReactImport(imports)
    /\ hasImport(FirstReactImport(imports), "useMemo")
    /\ CountImported(FirstReactImport(imports), "useMemo") = 1
    /\ CountImported(FirstReactImport(imports), "useState") <= 1
    /\ HasReactImport(request) => hasImport(FirstReactImport(imports), "useState")

C6_Witness ==
  /\ fired = 2
  /\ HasReactImport(request)
  /\ ~hasImport(FirstReactImport(request), "useMemo")
  /\ ~hasImport(FirstReactImport(request), "useState")
  /\ hasImport(FirstReactImport(imports), "useMemo")

UseMemoOnlyImport == ImportDecl(<<ImportSpecifier("useMemo")>>, "react")

\* C7 (as claimed): for a module submitted without an import from "react",
\* once a rewrite fired the inserted import holds only useMemo, however many
\* functions fired a rewrite.
C7_InsertedImportOnlyUseMemo ==
  (~HasReactImport(request) /\ fired > 0) => imports = <<UseMemoOnlyImport>> \o request

\* C7 (amended): for a module submitted without an import from "react", the
\* import inserted at the top holds only useMemo as long as exactly one
\* function has fired a rewrite; from the second such function on the visitor
\* finds the inserted import and it holds useMemo and useState.
C7_InsertedImportUntilSecondRewrite ==
  ~HasReactImport(request) =>
    /\ fired = 0 => imports = request
    /\ fired = 1 => imports = <<UseMemoOnlyImport>> \o request
    /\ fired >= 2 =>
         imports = <<ImportDecl(<<ImportSpecifier("useMemo"),
                                  ImportSpecifier("useState")>>, "react")>> \o request

C7_Witness ==
  /\ ~HasReactImport(request)
  /\ fired = 1
  /\ visited = 2
  /\ pc = "visited"
  /\ imports = <<UseMemoOnlyImport>> \o request

\* C8: when neither rewrite fires for a function (codegenJS returns nothing
\* and no declaration has a direct expensive call as initializer) the visit
\* raises no error and leaves the body and the import list as they were; a
\* function without parameters and statements keeps its empty body.
C8_PassThrough ==
  [][(pc' = "visited" /\ generatedBody' = <<>> /\ NoDirectExpensiveCall(fn'.body)) =>
       /\ thrown' = NoError
       /\ body' = fn'.body
       /\ imports' = imports
       /\ fired' = fired
       /\ (fn'.params = <<>> /\ fn'.body = <<>>) => (body' = <<>> /\ instrs' = <<>>)]_vars

C8_Witness ==
  /\ pc = "visited"
  /\ generatedBody = <<>>
  /\ NoDirectExpensiveCall(fn.body)
  /\ Len(fn.params) > 0
  /\ \E i \in 1..Len(fn.body) : fn.body[i].type = "VariableDeclaration"
  /\ \E i \in 1..Len(info) : info[i].dependencies # <<>>
  /\ body = fn.body
  /\ imports = request

\* C9: a span of exactly one instruction that is a Declare is emitted as a
\* plain pass-through instruction; no ReactiveBlock holds it, and no memo
\* declaration is generated from it.
C9_SingleDeclareDemoted ==
  pc = "partitioned" =>
    \A s \in 1..Len(scopes) :
      (scopes[s].start = scopes[s].end /\ get(instrs, scopes[s].start).kind = "Declare") =>
        /\ \E k \in 1..Len(hir) :
             /\ hir[k].kind = "Declare"
             /\ hir[k].id = scopes[s].start
             /\ hir[k].instr = get(instrs, scopes[s].start)
        /\ \A k \in 1..Len(hir) :
             hir[k].kind = "ReactiveBlock" => scopes[s].start \notin Range(hir[k].instrs)
        /\ Len(generatedBody) <= Len(scopes) - 1

C9_Witness ==
  /\ pc = "partitioned"
  /\ Len(scopes) = 1
  /\ scopes[1].start = scopes[1].end
  /\ get(instrs, scopes[1].start).kind = "Declare"
  /\ info[scopes[1].start + 1].dependencies # <<>>
  /\ generatedBody = <<>>

\* the structural failures: a destructured parameter whose key is not an
\* identifier, or a top-level variable declarator without initializer
StructuralFailure(func) ==
  \/ \E i \in 1..Len(func.params) :
       /\ func.params[i].type = "ObjectPattern"
       /\ \E k \in 1..Len(func.params[i].properties) :
            func.params[i].properties[k].key.type # "Identifier"
  \/ \E i \in 1..Len(func.body) :
       /\ func.body[i].type = "VariableDeclaration"
       /\ \E k \in 1..Len(func.body[i].declarations) :
            func.body[i].declarations[k].init = Null

\* C10: when the function being lowered has a structural failure, lowering
\* throws, and compileReactCode returns success = false with an error message
\* and no compiledCode, whatever was rewritten before.
C10_StructuralFailureFails ==
  (fn # Null /\ StructuralFailure(fn)) =>
    /\ pc \in {"threw", "returned"}
    /\ thrown # NoError
    /\ instrs = <<>> /\ body = fn.body
    /\ pc = "returned" =>
         /\ response.success = FALSE
         /\ "error" \in DOMAIN response
         /\ response.error = thrown
         /\ "compiledCode" \notin DOMAIN response

C10_Witness ==
  /\ pc = "returned"
  /\ fn # Null
  /\ StructuralFailure(fn)
  /\ fired = 1
  /\ visited = 2
  /\ response.success = FALSE

\* C11: lowering never fails on a shape no lowering rule covers: the only
\* functions whose lowering throws are those with a structural failure (a
\* destructured parameter with a non-identifier key, a declarator without
\* initializer); every other function is lowered to the end.
C11_OnlyStructuralFailuresAbort ==
  (fn # Null /\ thrown # NoError) => StructuralFailure(fn)

\* the lines compileReactCode pushes and its compilation logs when no other
\* call is in progress
ownLines(module) ==
  <<Line("Starting server-side compilation...", <<>>)>>
    \o transformAsync(module).log
    \o <<IF transformAsync(module).error # NoError
         THEN Line("Error", transformAsync(module).error)
         ELSE IF transformAsync(module).code THEN Line("Compilation successful!", <<>>)
         ELSE Line("No output generated", <<>>)>>

\* C12: whatever the overlap of the calls, the logs array a call returns holds
\* exactly the lines of that call's own compilation, in order, and no line
\* written by the compilation of another request.
C12_LogsIsolated ==
  \A i \in DOMAIN calls :
    calls[i].pc = "returned" =>
      /\ \A k \in 1..Len(calls[i].response.logs) : calls[i].response.logs[k].from = i
      /\ [k \in 1..Len(calls[i].response.logs) |-> calls[i].response.logs[k].line]
           = ownLines(calls[i].module)

\* the lines of step 5, the maintenance of the import from "react"
ImportLines ==
  {Line("Added useMemo to existing React import", <<>>),
   Line("Added useState to existing React import", <<>>),
   Line("Added new React import with useMemo", <<>>)}

RewriteFires(statements) ==
  \E i \in 1..Len(statements) :
    statements[i].type = "VariableDeclaration" /\ hasExpensiveOperation(statements[i])

\* C14 (as stated): there is a function whose compiled body, compiled a second
\* time, has a declaration that the statement-level pass wraps in useMemo.
C14_RewriteFiresOnOwnOutput ==
  \E func \in Functions : \E r \in {visitFunction(func, <<>>)} :
    r.error = NoError /\ RewriteFires(r.body)

\* C14 (amended): compiling the output again never makes the statement-level
\* pass fire: the second run leaves every statement of the first output as it
\* is.  What it can do is prepend the declarations of the IR-level pass again.
C14_NoRewriteOnOwnOutput ==
  pc = "output" =>
    /\ ~RewriteFires(fn.body)
    /\ body = generatedBody \o fn.body

\* the first run rewrote a declaration, and the second run changed its output
C14_Witness ==
  /\ pc = "output"
  /\ RewriteFires(previous.fn.body)
  /\ fn.body = previous.body
  /\ thrown = NoError
  /\ body # fn.body

\* the operand ids an instruction holds
Operands(instr) ==
  IF instr.kind = "Call"
  THEN {instr.receiver}
         \cup {instr.arguments[k].value :
                 k \in {x \in 1..Len(instr.arguments) : instr.arguments[x].kind = "RValue"}}
  ELSE IF instr.kind = "Object"
  THEN {instr.properties[k].value.value :
          k \in {x \in 1..Len(instr.properties) : instr.properties[x].value.kind = "RValue"}}
  ELSE IF instr.kind = "ReadProperty" THEN {instr.object}
  ELSE IF instr.kind = "Declare" THEN {instr.rhs}
  ELSE IF instr.kind = "Return" /\ instr.value # -1 THEN {instr.value}
  ELSE {}

\* C15: between any two steps of readInstructions, every operand id an
\* instruction holds is the id of an instruction that exists and is strictly
\* smaller than the id of the instruction holding it.
C15_OperandsPrecede ==
  \A i \in 1..Len(instrs) :
    \A used \in Operands(instrs[i]) : 0 <= used /\ used < i - 1

\* lowering is under way, and a Call with an argument by id has been emitted
C15_Witness ==
  /\ pc = "body"
  /\ lowered = 1
  /\ lowered < Len(fn.body)
  /\ \E i \in 1..Len(instrs) :
       instrs[i].kind = "Call" /\ Cardinality(Operands(instrs[i])) >= 2

\* the ids of the Declare and Param instructions of func that bind name
Bindings(func, name) ==
  {i \in 0..(Len(func) - 1) :
     \/ func[i + 1].kind = "Declare" /\ func[i + 1].lhs = name
     \/ func[i + 1].kind = "Param" /\ func[i + 1].name = name}

\* C16: when the statement just lowered is `return x` for an identifier x, the
\* Return instruction holds the id of the latest earlier Declare or Param that
\* binds x, and, only when there is none, the id of a LoadConstant x emitted
\* for the reference.
C16_LatestBindingWins ==
  (/\ pc = "body"
   /\ lowered >= 1
   /\ fn.body[lowered].type = "ReturnStatement"
   /\ fn.body[lowered].argument.type = "Identifier") =>
    LET ret == instrs[Len(instrs)]
        bound == Bindings(SubSeq(instrs, 1, Len(instrs) - 1), fn.body[lowered].argument.name)
    IN /\ ret.kind = "Return"
       /\ IF bound # {} THEN ret.value = MaxOf(bound)
          ELSE /\ ret.value = Len(instrs) - 2
               /\ instrs[ret.value + 1] =
                    [kind |-> "LoadConstant",
                     variableName |-> fn.body[lowered].argument.name]

\* the seeds of the sweep as the code takes them
Seeds(func) ==
  {i \in 0..(Len(func) - 1) : get(func, i).kind = "Param" \/ isHookCall(get(func, i), func)}

\* the least set that holds base and every instruction consuming a member
RECURSIVE Closure(_, _)
Closure(func, base) ==
  LET next == base \cup {i \in 0..(Len(func) - 1) : Operands(get(func, i)) \cap base # {}}
  IN IF next = base THEN base ELSE Closure(func, next)

\* C17: the set the single forward sweep returns is the least fixpoint of the
\* propagation from the seeds, and sweeping once more from it adds nothing.
C17_SweepIsLeastFixpoint ==
  pc = "analyzed" =>
    /\ mayChange = Closure(instrs, Seeds(instrs))
    /\ sweepMayChange(instrs, 0, mayChange) = mayChange

\* a chain of two consumption edges from a seed
C17_Witness ==
  /\ pc = "analyzed"
  /\ \E i \in mayChange \ Seeds(instrs) :
       /\ Operands(get(instrs, i)) \cap Seeds(instrs) = {}
       /\ Operands(get(instrs, i)) \cap mayChange # {}
  /\ \E i \in 0..(Len(instrs) - 1) : i \notin mayChange /\ Operands(get(instrs, i)) # {}

\* the name of the function a Call invokes: the method for a method call, the
\* callee identifier for a plain call
CalleeName(instr, func) ==
  IF instr.property # "" THEN instr.property
  ELSE IF get(func, instr.receiver).kind = "LoadConstant"
  THEN get(func, instr.receiver).variableName
  ELSE ""

\* C18: an instruction is may-change exactly when it is a Param, a Call whose
\* callee name (the invoked method for a method call) begins with "use", or
\* consumes a may-change id; the name of the object a method is called on does
\* not make a seed.
C18_SeedsByCalleeName ==
  pc = "analyzed" =>
    \A i \in 0..(Len(instrs) - 1) :
      i \in mayChange <=>
        \/ get(instrs, i).kind = "Param"
        \/ get(instrs, i).kind = "Call"
             /\ startsWith(CalleeName(get(instrs, i), instrs), "use")
        \/ Operands(get(instrs, i)) \cap mayChange # {}

\* C19: dependencies holds exactly the consumed ids that are may-change,
\* shouldMemo is true exactly for an expensive instruction with a non-empty
\* dependencies set, and shouldMemoize agrees with shouldMemo.
C19_DependenciesAndShouldMemo ==
  pc = "analyzed" =>
    /\ Len(info) = Len(instrs)
    /\ \A i \in 1..Len(instrs) :
         /\ Range(info[i].dependencies) = Operands(instrs[i]) \cap mayChange
         /\ Len(info[i].dependencies) = Cardinality(Range(info[i].dependencies))
         /\ info[i].shouldMemo <=>
              (isExpensiveOperation(instrs[i], instrs) /\ info[i].dependencies # <<>>)
         /\ shouldMemoize(info[i]) <=> info[i].shouldMemo

\* one expensive instruction is marked, another is not for want of dependencies,
\* and an instruction consumes both a may-change id and one that is not
C19_Witness ==
  /\ pc = "analyzed"
  /\ \E i \in 1..Len(instrs) : info[i].shouldMemo
  /\ \E i \in 1..Len(instrs) :
       isExpensiveOperation(instrs[i], instrs) /\ ~info[i].shouldMemo
  /\ \E i \in 1..Len(instrs) :
       /\ Operands(instrs[i]) \cap mayChange # {}
       /\ Operands(instrs[i]) \ mayChange # {}

\* expensive as the claim has it
ClaimedExpensive(instr, func) ==
  \/ instr.kind = "Object"
  \/ instr.kind = "Call" /\ instr.property \in expensiveMethods
  \/ /\ instr.kind = "Call"
     /\ get(func, instr.receiver).kind = "LoadConstant"
     /\ includes(get(func, instr.receiver).variableName, "Math")

\* C20: isExpensiveOperation holds exactly for Object instructions, Calls of
\* map, filter, reduce, sort, find or findIndex, and Calls whose callee is a
\* LoadConstant with "Math" in its name, Math.sqrt(x) included; so these are
\* the instructions marked shouldMemo when they have dependencies.
C20_ExpensiveClassification ==
  pc = "analyzed" =>
    \A i \in 1..Len(instrs) :
      /\ isExpensiveOperation(instrs[i], instrs) <=> ClaimedExpensive(instrs[i], instrs)
      /\ info[i].shouldMemo <=>
           (ClaimedExpensive(instrs[i], instrs) /\ info[i].dependencies # <<>>)

\* the Object and Call instructions of func
WritableSeeds(func) ==
  {i \in 0..(Len(func) - 1) : get(func, i).kind \in {"Object", "Call"}}

\* C21: after analyze, c is in the mutator set of v exactly when c is a Call
\* that consumes v and v is writable, writable being the closure under
\* consumption of the Object and Call instructions; so every member of a
\* mutator set is a Call with a larger id than the value it is recorded on, and
\* a value that is not writable has no mutator set.
C21_MutatorSets ==
  pc = "analyzed" =>
    \A v \in 0..(Len(instrs) - 1) :
      /\ Range(info[v + 1].instructions) \subseteq 0..(Len(instrs) - 1)
      /\ \A c \in 0..(Len(instrs) - 1) :
           c \in Range(info[v + 1].instructions) <=>
             /\ get(instrs, c).kind = "Call"
             /\ v \in Operands(get(instrs, c))
             /\ v \in Closure(instrs, WritableSeeds(instrs))
      /\ \A c \in Range(info[v + 1].instructions) : get(instrs, c).kind = "Call" /\ c > v
      /\ v \notin Closure(instrs, WritableSeeds(instrs)) => info[v + 1].instructions = <<>>

\* a Call is recorded on a Declare, which is writable by propagation only, and
\* another Call consumes a value that is not writable
C21_Witness ==
  /\ pc = "analyzed"
  /\ \E v \in 0..(Len(instrs) - 1) :
       get(instrs, v).kind = "Declare" /\ info[v + 1].instructions # <<>>
  /\ \E c \in 0..(Len(instrs) - 1) :
       /\ get(instrs, c).kind = "Call"
       /\ Operands(get(instrs, c)) \ Closure(instrs, WritableSeeds(instrs)) # {}

\* the ids joined to v by the edges between each marked instruction handled so
\* far and the ids in its mutator set
RECURSIVE ComponentOf(_)
ComponentOf(group) ==
  LET next == group
        \cup {m \in 0..MaxIds : \E v \in group \cap done :
                info[v + 1].shouldMemo /\ m \in Range(info[v + 1].instructions)}
        \cup {v \in done : info[v + 1].shouldMemo
                             /\ Range(info[v + 1].instructions) \cap group # {}}
  IN IF next = group THEN group ELSE ComponentOf(next)

\* the groups buildSets returns are the components of two members or more
GroupsAreComponents ==
  LET groups == buildSets(sets) IN
  /\ \A g \in 1..Len(groups) : Cardinality(Range(groups[g])) = Len(groups[g])
  /\ \A g, h \in 1..Len(groups) : g # h => Range(groups[g]) \cap Range(groups[h]) = {}
  /\ {Range(groups[g]) : g \in 1..Len(groups)}
       = {c \in {ComponentOf({v}) : v \in 0..MaxIds} : Cardinality(c) >= 2}

\* C22 as stated: the groups are the components of two members or more, in
\* whatever order the unions were made, and a marked instruction with an empty
\* mutator set is in no group.
C22_GroupsAreComponentsEmptyInNone ==
  pc = "unions" =>
    /\ GroupsAreComponents
    /\ \A v \in done :
         (info[v + 1].shouldMemo /\ info[v + 1].instructions = <<>>) =>
           \A g \in Range(buildSets(sets)) : v \notin Range(g)

\* C22, amended: the groups are the components of two members or more, in
\* whatever order the unions were made; a marked instruction with an empty
\* mutator set is in a group exactly when it is in the mutator set of a marked
\* instruction.
C22_GroupsAreComponents ==
  pc = "unions" =>
    /\ GroupsAreComponents
    /\ \A v \in done :
         (info[v + 1].shouldMemo /\ info[v + 1].instructions = <<>>) =>
           ((\E g \in Range(buildSets(sets)) : v \in Range(g))
              <=> \E u \in done : info[u + 1].shouldMemo
                                   /\ v \in Range(info[u + 1].instructions))

\* a group has been built through a root that is not the parent of all its
\* members, and a marked instruction without mutators is in it
C22_Witness ==
  /\ pc = "unions"
  /\ Len(buildSets(sets)) = 1
  /\ \E k \in Range(sets.keys) : sets.parent[sets.parent[k]] # sets.parent[k]
  /\ \E v \in done :
       /\ info[v + 1].shouldMemo /\ info[v + 1].instructions = <<>>
       /\ \E g \in Range(buildSets(sets)) : v \in Range(g)

\* the instruction ids an entry of the partitioned sequence stands for
EntryIds(entry) == IF entry.kind = "ReactiveBlock" THEN entry.instrs ELSE <<entry.id>>

\* C23: the merged spans are ascending and pairwise disjoint, and the
\* partitioned sequence lists every instruction id once and in ascending order,
\* the ids of a span together in one ReactiveBlock that holds the whole span
\* (or, for the span of a single Declare, as that one entry) and every other id
\* as an entry of its own carrying its instruction.
C23_OrderedPartition ==
  pc = "partitioned" =>
    /\ \A k \in 1..Len(scopes) :
         /\ 0 <= scopes[k].start /\ scopes[k].start <= scopes[k].end
         /\ scopes[k].end < Len(instrs)
         /\ k < Len(scopes) => scopes[k].end < scopes[k + 1].start
    /\ concat([k \in 1..Len(hir) |-> EntryIds(hir[k])]) = [i \in 1..Len(instrs) |-> i - 1]
    /\ \A k \in 1..Len(hir) :
         IF hir[k].kind = "ReactiveBlock"
         THEN \E s \in 1..Len(scopes) :
                hir[k].instrs = [i \in 1..(scopes[s].end - scopes[s].start + 1) |->
                                   scopes[s].start + i - 1]
         ELSE hir[k].instr = get(instrs, hir[k].id) /\ hir[k].kind = hir[k].instr.kind
    /\ \A s \in 1..Len(scopes) :
         \/ \E k \in 1..Len(hir) :
              hir[k].kind = "ReactiveBlock" /\ Head(hir[k].instrs) = scopes[s].start
         \/ scopes[s].start = scopes[s].end /\ get(instrs, scopes[s].start).kind = "Declare"
    /\ \A i \in 0..(Len(instrs) - 1) :
         (\A s \in 1..Len(scopes) : i < scopes[s].start \/ i > scopes[s].end) =>
           \E k \in 1..Len(hir) : hir[k].kind # "ReactiveBlock" /\ hir[k].id = i

\* two overlapping ranges were merged into one span, with entries before and
\* after its block
C23_Witness ==
  /\ pc = "partitioned"
  /\ Len(scopes) = 1
  /\ Len(buildSets(buildMutatingSets(instrs, info, 0, EmptyDisjointSet))) = 2
  /\ Len(hir) >= 3
  /\ hir[1].kind # "ReactiveBlock"
  /\ hir[Len(hir)].kind # "ReactiveBlock"

\* C24: the dependency set the generator uses for a ReactiveBlock is the union
\* of the dependencies of the instructions of its span less the ids of the
\* instructions of the block, and every id in it is smaller than the block's
\* first id.
C24_BlockDependencies ==
  pc = "partitioned" =>
    \A k \in 1..Len(hir) :
      hir[k].kind = "ReactiveBlock" =>
        LET deps == pruneDeps(hir)[k].deps
            start == Head(hir[k].instrs)
            end == hir[k].instrs[Len(hir[k].instrs)]
        IN /\ Range(deps)
                = UNION {Range(info[i + 1].dependencies) : i \in start..end}
                    \ Range(hir[k].instrs)
           /\ Cardinality(Range(deps)) = Len(deps)
           /\ \A dep \in Range(deps) : 0 <= dep /\ dep < start

\* a block collected a dependency on one of its own instructions, which the
\* generator does not use, and one from outside, which it does
C24_Witness ==
  /\ pc = "partitioned"
  /\ \E k \in 1..Len(hir) :
       /\ hir[k].kind = "ReactiveBlock"
       /\ Range(hir[k].deps) \cap Range(hir[k].instrs) # {}
       /\ pruneDeps(hir)[k].deps # <<>>
       /\ pruneDeps(hir)[k].deps # hir[k].deps

\* the positions in the partitioned sequence of the ReactiveBlocks whose pruned
\* dependency set is not empty, in ascending order
RECURSIVE MemoBlocksFrom(_)
MemoBlocksFrom(k) ==
  IF k > Len(hir) THEN <<>>
  ELSE (IF hir[k].kind = "ReactiveBlock" /\ pruneDeps(hir)[k].deps # <<>>
        THEN <<k>> ELSE <<>>) \o MemoBlocksFrom(k + 1)

\* the lowest id of a member of the block marked shouldMemo
LowestMarked(block) ==
  MinOf({i \in Range(block.instrs) : info[i + 1].shouldMemo})

\* C25 as stated: one declaration for each ReactiveBlock with a non-empty pruned
\* dependency set, the one the generator would emit for the lowest member marked
\* shouldMemo alone: no other member of the block contributes to it.
C25_OnlyLowestMarkedMember ==
  pc = "partitioned" =>
    /\ Len(generatedBody) = Len(MemoBlocksFrom(1))
    /\ \A j \in 1..Len(MemoBlocksFrom(1)) :
         LET block == hir[MemoBlocksFrom(1)[j]] IN
         /\ \E i \in Range(block.instrs) : info[i + 1].shouldMemo
         /\ generatedBody[j] =
              memoDeclaration([kind |-> "ReactiveBlock",
                               instrs |-> <<LowestMarked(block)>>,
                               decls |-> <<LowestMarked(block)>>,
                               deps |-> info[LowestMarked(block) + 1].dependencies],
                              LowestMarked(block), j - 1, instrs)

\* C25, amended: one declaration for each ReactiveBlock with a non-empty pruned
\* dependency set; its thunk is the expression rebuilt for the lowest member
\* marked shouldMemo from the instructions up to that member, so no other member
\* is in it; its dependency array names the parameters and declarations among
\* the pruned dependencies of all the members of the block.
C25_ThunkOfLowestMarkedMember ==
  pc = "partitioned" =>
    /\ Len(generatedBody) = Len(MemoBlocksFrom(1))
    /\ \A j \in 1..Len(MemoBlocksFrom(1)) :
         LET block == hir[MemoBlocksFrom(1)[j]]
             names == getDependencyNames(pruneDeps(hir)[MemoBlocksFrom(1)[j]].deps, instrs)
         IN
         /\ \E i \in Range(block.instrs) : info[i + 1].shouldMemo
         /\ Len(generatedBody[j].declarations) = 1
         /\ generatedBody[j].declarations[1].id = Id("memoized" \o ToString(j - 1))
         /\ generatedBody[j].declarations[1].init.callee = Id("useMemo")
         /\ generatedBody[j].declarations[1].init.arguments[1].body
              = instrToExpression(get(instrs, LowestMarked(block)),
                                  SubSeq(instrs, 1, LowestMarked(block) + 1))
         /\ generatedBody[j].declarations[1].init.arguments[2]
              = ArrayE([n \in 1..Len(names) |-> Id(names[n])])

\* a block with two members marked shouldMemo, the second of which brings a
\* name into the dependency array
C25_Witness ==
  /\ pc = "partitioned"
  /\ Len(generatedBody) = 1
  /\ \E k \in 1..Len(hir) :
       /\ hir[k].kind = "ReactiveBlock"
       /\ Cardinality({i \in Range(hir[k].instrs) : info[i + 1].shouldMemo}) = 2
       /\ Len(generatedBody[1].declarations[1].init.arguments[2].elements)
            > Len(getDependencyNames(info[LowestMarked(hir[k]) + 1].dependencies, instrs))

\* the expression the claim has instrToExpression rebuild: an operand that is
\* a Param or a Declare is the identifier of that name
RECURSIVE Rebuilt(_, _)
Rebuilt(instr, func) ==
  IF instr.kind = "Param" THEN Id(instr.name)
  ELSE IF instr.kind = "Declare" THEN Id(instr.lhs)
  ELSE IF instr.kind = "LoadConstant" THEN Id(instr.variableName)
  ELSE IF instr.kind = "Call" THEN
    CallE(IF instr.property # ""
          THEN Member(Rebuilt(get(func, instr.receiver), func), Id(instr.property), FALSE)
          ELSE Rebuilt(get(func, instr.receiver), func),
          [i \in 1..Len(instr.arguments) |->
             IF instr.arguments[i].kind = "Literal" THEN literalNode(instr.arguments[i])
             ELSE Rebuilt(get(func, instr.arguments[i].value), func)])
  ELSE IF instr.kind = "Object" THEN
    ObjE([i \in 1..Len(instr.properties) |->
            ObjProp(Id(instr.properties[i].key),
                    IF instr.properties[i].value.kind = "Literal"
                    THEN literalNode(instr.properties[i].value)
                    ELSE Rebuilt(get(func, instr.properties[i].value.value), func))])
  ELSE IF instr.kind = "ReadProperty" THEN
    Member(Rebuilt(get(func, instr.object), func),
           IF instr.property.typeof = "string" THEN Id(instr.property.value)
           ELSE Num(instr.property.value),
           instr.property.typeof # "string")
  ELSE Id("unknown")

\* expr is node or an expression inside it
RECURSIVE OccursIn(_, _)
OccursIn(expr, node) ==
  \/ node = expr
  \/ node.type = "MemberExpression"
       /\ (OccursIn(expr, node.object) \/ OccursIn(expr, node.property))
  \/ node.type = "CallExpression"
       /\ \/ OccursIn(expr, node.callee)
          \/ \E k \in 1..Len(node.arguments) : OccursIn(expr, node.arguments[k])
  \/ node.type = "ObjectExpression"
       /\ \E k \in 1..Len(node.properties) : OccursIn(expr, node.properties[k].value)
  \/ node.type = "BinaryExpression"
       /\ (OccursIn(expr, node.left) \/ OccursIn(expr, node.right))
  \/ node.type = "ArrowFunctionExpression" /\ OccursIn(expr, node.body)
  \/ node.type = "VariableDeclaration"
       /\ \E k \in 1..Len(node.declarations) : OccursIn(expr, node.declarations[k].init)
  \/ node.type = "ReturnStatement" /\ OccursIn(expr, node.argument)
  \/ node.type = "ExpressionStatement" /\ OccursIn(expr, node.expression)

\* no function expression was lowered into the expression
RECURSIVE NoFunctionIn(_)
NoFunctionIn(node) ==
  /\ node # Id("function")
  /\ node.type = "MemberExpression" => NoFunctionIn(node.object)
  /\ node.type = "CallExpression" =>
       /\ NoFunctionIn(node.callee)
       /\ \A k \in 1..Len(node.arguments) : NoFunctionIn(node.arguments[k])
  /\ node.type = "ObjectExpression" =>
       \A k \in 1..Len(node.properties) : NoFunctionIn(node.properties[k].value)

\* C26: the thunk of every generated declaration is the expression the
\* memoized instruction was lowered from: its operands that are parameters or
\* declared variables are identifiers of those names, its LoadConstants their
\* identifiers and its inlined literals the same literals, and, function
\* expressions apart, that expression stands in the body of the function.
C26_RoundTrip ==
  pc = "partitioned" =>
    \A j \in 1..Len(MemoBlocksFrom(1)) :
      LET main == get(instrs, LowestMarked(hir[MemoBlocksFrom(1)[j]])) IN
      /\ main.kind \in {"Call", "Object", "ReadProperty"}
      /\ generatedBody[j].declarations[1].init.arguments[1].body = Rebuilt(main, instrs)
      /\ NoFunctionIn(Rebuilt(main, instrs)) =>
           \E s \in 1..Len(fn.body) : OccursIn(Rebuilt(main, instrs), fn.body[s])

\* C27: every merged span has more than one instruction, its first instruction
\* is marked shouldMemo, hence a Call or an Object, and the pruned dependency
\* set of its block is not empty; so the partitioner makes a ReactiveBlock of
\* every span, never the single-Declare entry, every block has a member that
\* qualifies, and codegenJS returns one declaration for each span.
C27_EverySpanMemoized ==
  pc = "partitioned" =>
    /\ \A s \in 1..Len(scopes) :
         /\ scopes[s].start < scopes[s].end
         /\ info[scopes[s].start + 1].shouldMemo
         /\ get(instrs, scopes[s].start).kind \in {"Call", "Object"}
         /\ \E k \in 1..Len(hir) :
              /\ hir[k].kind = "ReactiveBlock"
              /\ Head(hir[k].instrs) = scopes[s].start
              /\ pruneDeps(hir)[k].deps # <<>>
              /\ mainOperationId(hir[k], info) = scopes[s].start
    /\ Cardinality({k \in 1..Len(hir) : hir[k].kind = "ReactiveBlock"}) = Len(scopes)
    /\ Len(generatedBody) = Len(scopes)

\* a function with two spans and a declaration generated for each
C27_Witness ==
  /\ pc = "partitioned"
  /\ Len(scopes) = 2
  /\ Len(generatedBody) = 2
  /\ \E k \in 1..Len(hir) : hir[k].kind = "Declare"

\* the names the statement binds to the result of a hook call, by a plain
\* declaration or by an array pattern
HookBound(stmt) ==
  IF stmt.type # "VariableDeclaration" THEN {}
  ELSE UNION {IF /\ stmt.declarations[k].init.type = "CallExpression"
                 /\ stmt.declarations[k].init.callee.type = "Identifier"
                 /\ startsWith(stmt.declarations[k].init.callee.name, "use")
              THEN IF stmt.declarations[k].id.type = "Identifier"
                   THEN {stmt.declarations[k].id.name}
                   ELSE IF stmt.declarations[k].id.type = "ArrayPattern"
                   THEN {stmt.declarations[k].id.elements[e].name :
                           e \in 1..Len(stmt.declarations[k].id.elements)}
                   ELSE {}
              ELSE {} :
              k \in 1..Len(stmt.declarations)}

\* the number of instructions the parameters and the first n statements of
\* the function are lowered to
LoweredTo(n) ==
  Len(lowerBody(SubSeq(fn.body, 1, n), lowerParams(fn.params, LowerState(<<>>))).instrs)

\* instruction id stands for the variable name: it declares it, or it is the
\* LoadConstant emitted for a reference to it
StandsFor(id, name) ==
  \/ get(instrs, id).kind = "Declare" /\ get(instrs, id).lhs = name
  \/ get(instrs, id).kind = "LoadConstant" /\ get(instrs, id).variableName = name

\* C28: an instruction of a later statement that reads a variable an earlier
\* statement bound to the result of a hook call, by a plain declaration or by
\* an array pattern, is may-change and has the read among its dependencies.
C28_HookBoundReadsMayChange ==
  pc = "analyzed" =>
    \A s \in 1..Len(fn.body) : \A name \in HookBound(fn.body[s]) :
      \A t \in (s + 1)..Len(fn.body) :
        \A i \in LoweredTo(t - 1)..(LoweredTo(t) - 1) :
          \A used \in Operands(get(instrs, i)) :
            StandsFor(used, name) =>
              /\ i \in mayChange
              /\ used \in Range(info[i + 1].dependencies)

\* C29: once no call that was started is still suspended at its await,
\* console.log is again the function it was before the first call, and the logs
\* array of a call that has returned holds what its response was built with.
C29_PatchUndone ==
  pc = "requests" =>
    /\ (\A i \in DOMAIN calls : calls[i].pc # "awaiting") => console = <<>>
    /\ \A i \in DOMAIN calls :
         calls[i].pc = "returned" => calls[i].logs = calls[i].response.logs

====
